---- MODULE Spec2Model ----
(***************************************************************************)
(* A model of the two data scripts of the Uganda map repository:           *)
(*   - the telecom fiber ETL (postJSONWithRetry, elementToGeoJSONFeature,  *)
(*     buildFeatureCollection, main), and                                  *)
(*   - the secondary schools build (tryLoadOfficialDataset, parseCSV,      *)
(*     rowsToGeoJSON, coerceToPoints, fetchOverpass, main).                *)
(* JavaScript values are tagged records, strings that the code inspects    *)
(* character by character are sequences of one-character strings, and      *)
(* numbers are integers.                                                   *)
(***************************************************************************)
EXTENDS Integers, Sequences, FiniteSets, TLC

(***************************************************************************)
(* Bounds of the model.                                                    *)
(***************************************************************************)
MaxEndpoints == 4
MaxAttemptsBound == 6
MaxElements == 2
MaxFeatures == 2
MaxRows == 2
MaxPositions == 3
MaxVertices == 3
MaxMembers == 3
MaxLineLen == 5

(***************************************************************************)
(* Program constants.                                                      *)
(***************************************************************************)
NumOverpassEndpoints == 4
MainMaxAttempts == 6
MainBaseDelayMs == 1500
DefaultBaseDelayMs == 1000
SampleLines == 5

(***************************************************************************)
(* JavaScript values that reach a coordinate position.                     *)
(***************************************************************************)
Num(n) == [t |-> "number", n |-> n]
UNDEF == [t |-> "undefined", n |-> 0]
NULL == [t |-> "null", n |-> 0]
STR == [t |-> "string", n |-> 0]

\* typeof v === 'number'
TypeofNumber(v) == v.t = "number"

\* JSON.stringify of a value in an array position: undefined becomes null.
StringifyLeaf(v) == IF v.t = "undefined" THEN NULL ELSE v

(***************************************************************************)
(* Characters and texts.                                                   *)
(***************************************************************************)
UpperChars == << "A", "B", "C", "D", "E", "F", "G", "H", "I", "J", "K", "L", "M", "N", "O", "P", "Q", "R", "S", "T", "U", "V", "W", "X", "Y", "Z" >>
LowerChars == << "a", "b", "c", "d", "e", "f", "g", "h", "i", "j", "k", "l", "m", "n", "o", "p", "q", "r", "s", "t", "u", "v", "w", "x", "y", "z" >>
DigitChars == << "0", "1", "2", "3", "4", "5", "6", "7", "8", "9" >>

IndexIn(c, s) == CHOOSE i \in 1..Len(s) : s[i] = c
InSeq(c, s) == \E i \in 1..Len(s) : s[i] = c

\* toLowerCase of one character
LowerChar(c) == IF InSeq(c, UpperChars) THEN LowerChars[IndexIn(c, UpperChars)] ELSE c
ToLowerCase(s) == [i \in 1..Len(s) |-> LowerChar(s[i])]

\* pattern.test(s) for a pattern that is a literal text
Contains(s, pat) ==
  \E i \in 1..(Len(s) - Len(pat) + 1) : SubSeq(s, i, i + Len(pat) - 1) = pat

(***************************************************************************)
(* OSM elements of an Overpass response (out body geom).  A vertex p of a  *)
(* geometry list is an object {lon, lat} or null.                          *)
(***************************************************************************)
Vertex(lon, lat) == [isNull |-> FALSE, lon |-> lon, lat |-> lat]
NullVertex == [isNull |-> TRUE, lon |-> UNDEF, lat |-> UNDEF]

NoList == [isArray |-> FALSE, items |-> << >>]
List(s) == [isArray |-> TRUE, items |-> s]

Member(type, geometry) == [type |-> type, geometry |-> geometry]

Element(type, id, lon, lat, geometry, members) ==
  [type |-> type, id |-> id, lon |-> lon, lat |-> lat,
   geometry |-> geometry, members |-> members]

NoGeometry == [type |-> "none", coordinates |-> << >>]

\* A variant that writes a vertex as [lat, lon].
PairOfLatLon(p) == << p.lat, p.lon >>

\* p => [p.lon, p.lat]; reading a property of null throws a TypeError
PairOf(p) == << p.lon, p.lat >>
MapPairs(pts) == [i \in 1..Len(pts) |-> PairOf(pts[i])]
HasNullVertex(pts) == \E i \in 1..Len(pts) : pts[i].isNull

\* A variant that takes a line from every member, without the test of its type and
\* geometry.
MemberLinesUnfiltered(ms) == [i \in 1..Len(ms) |-> [j \in 1..Len(ms[i].geometry.items) |->
                                 << ms[i].geometry.items[j].lon, ms[i].geometry.items[j].lat >>]]

RECURSIVE MemberLines(_)
MemberLines(ms) ==
  IF ms = << >> THEN << >>
  ELSE LET m == Head(ms)
       IN  IF m.type = "way" /\ m.geometry.isArray
           THEN << MapPairs(m.geometry.items) >> \o MemberLines(Tail(ms))
           ELSE MemberLines(Tail(ms))

MembersThrow(ms) ==
  \E i \in 1..Len(ms) :
     ms[i].type = "way" /\ ms[i].geometry.isArray /\ HasNullVertex(ms[i].geometry.items)

\* The geometry built for one element (null: type "none").
ElementGeometry(el) ==
  IF el.type = "node" /\ TypeofNumber(el.lon) /\ TypeofNumber(el.lat)
  THEN [type |-> "Point", coordinates |-> << el.lon, el.lat >>]
  ELSE IF el.type = "way" /\ el.geometry.isArray
  THEN [type |-> "LineString", coordinates |-> MapPairs(el.geometry.items)]
  ELSE IF el.type = "relation" /\ el.members.isArray
  THEN LET lines == MemberLines(el.members.items)
       IN  IF Len(lines) > 0
           THEN IF Len(lines) = 1
                THEN [type |-> "LineString", coordinates |-> lines[1]]
                ELSE [type |-> "MultiLineString", coordinates |-> lines]
           ELSE NoGeometry
  ELSE NoGeometry

\* The tags of an element that the classification reads; << >> stands for a tag that
\* is absent or empty.
Tags(telecom, man_made, utility, cable, cable_medium, communication_line, communication_medium) ==
  [telecom |-> telecom, man_made |-> man_made, utility |-> utility, cable |-> cable,
   cable_medium |-> cable_medium, communication_line |-> communication_line,
   communication_medium |-> communication_medium]
NoTags == Tags(<< >>, << >>, << >>, << >>, << >>, << >>, << >>)

\* const tags = el.tags || {}
TagsOf(el) == IF "tags" \in DOMAIN el THEN el.tags ELSE NoTags

\* an element el with tags
WithTags(el, tags) ==
  [type |-> el.type, id |-> el.id, lon |-> el.lon, lat |-> el.lat,
   geometry |-> el.geometry, members |-> el.members, tags |-> tags]

TELECOM == << "t", "e", "l", "e", "c", "o", "m" >>
STREET_CABINET == << "s", "t", "r", "e", "e", "t", "_", "c", "a", "b", "i", "n", "e", "t" >>
UTILITY_POLE == << "u", "t", "i", "l", "i", "t", "y", "_", "p", "o", "l", "e" >>
SiteKinds == { << "e", "x", "c", "h", "a", "n", "g", "e" >>,
               << "d", "i", "s", "t", "r", "i", "b", "u", "t", "i", "o", "n", "_", "p", "o", "i", "n", "t" >>,
               << "d", "a", "t", "a", "_", "c", "e", "n", "t", "e", "r" >> }

\* /fibre|fiber/i.test(s)
IsFibre(s) == Contains(ToLowerCase(s), << "f", "i", "b", "r", "e" >>) \/ Contains(ToLowerCase(s), << "f", "i", "b", "e", "r" >>)

\* /^(exchange|distribution_point|data_center)$/i.test(s)
IsSite(s) == ToLowerCase(s) \in SiteKinds

\* A variant of the classification of a node that tests the cabinet before the site.
nodeFeatureTypeCabinetFirst(tags) ==
  IF tags.man_made = STREET_CABINET /\ tags.telecom # << >> THEN "telecom_cabinet"
  ELSE IF IsSite(tags.telecom) THEN "telecom_site"
  ELSE IF tags.man_made = UTILITY_POLE /\ tags.utility = TELECOM THEN "telecom_pole"
  ELSE "null"

\* the if / else if chain for a node
nodeFeatureType(tags) ==
  IF IsSite(tags.telecom) THEN "telecom_site"
  ELSE IF tags.man_made = STREET_CABINET /\ tags.telecom # << >> THEN "telecom_cabinet"
  ELSE IF tags.man_made = UTILITY_POLE /\ tags.utility = TELECOM THEN "telecom_pole"
  ELSE "null"

\* featureType of elementToGeoJSONFeature; "null" stands for null
featureType(el) ==
  LET tags == TagsOf(el)
  IN  IF el.type \in { "way", "relation" }
      THEN IF \/ tags.cable = TELECOM /\ IsFibre(tags.cable_medium)
              \/ tags.communication_line # << >> /\ IsFibre(tags.communication_medium)
           THEN "fiber_line" ELSE "null"
      ELSE IF el.type = "node" THEN nodeFeatureType(tags)
      ELSE "null"

\* Whether elementToGeoJSONFeature throws a TypeError on el.
ElementThrows(el) ==
  \/ el.type = "way" /\ el.geometry.isArray /\ HasNullVertex(el.geometry.items)
  \/ el.type = "relation" /\ el.members.isArray /\ MembersThrow(el.members.items)

\* elementToGeoJSONFeature: the feature, or none (return null).
elementToGeoJSONFeature(el) ==
  LET geometry == ElementGeometry(el)
  IN  [none |-> geometry.type = "none",
       id |-> << el.type, el.id >>,
       geometry |-> geometry,
       feature_type |-> featureType(el)]

RECURSIVE buildFeatures(_)
buildFeatures(elements) ==
  IF elements = << >> THEN << >>
  ELSE LET f == elementToGeoJSONFeature(Head(elements))
       IN  (IF f.none THEN << >> ELSE << f >>) \o buildFeatures(Tail(elements))

BuildThrows(elements) == \E i \in 1..Len(elements) : ElementThrows(elements[i])

(***************************************************************************)
(* The payloads and HTTP responses the Overpass endpoints can give.        *)
(***************************************************************************)
GoodNode == Element("node", 1, Num(32), Num(0), NoList, NoList)
BareNode == Element("node", 2, UNDEF, UNDEF, NoList, NoList)
GoodWay == Element("way", 3, UNDEF, UNDEF,
                   List(<< Vertex(Num(30), Num(1)), Vertex(Num(31), Num(2)) >>), NoList)
GapWay == Element("way", 4, UNDEF, UNDEF,
                  List(<< Vertex(Num(30), Num(1)), Vertex(UNDEF, UNDEF) >>), NoList)
NullVertexWay == Element("way", 5, UNDEF, UNDEF,
                         List(<< Vertex(Num(30), Num(1)), NullVertex >>), NoList)
OneMemberRelation ==
  Element("relation", 6, UNDEF, UNDEF, NoList,
          List(<< Member("node", NoList),
                  Member("way", List(<< Vertex(Num(30), Num(1)), Vertex(Num(31), Num(2)) >>)) >>))

\* The elements the responses of the model are made of.
ElementList == << GoodNode, BareNode, GapWay, NullVertexWay >>

RECURSIVE ElementSeqs(_)
ElementSeqs(n) ==
  IF n = 0 THEN { << >> }
  ELSE LET shorter == ElementSeqs(n - 1)
       IN  shorter \cup { Append(s, ElementList[i]) :
                            s \in { t \in shorter : Len(t) = n - 1 },
                            i \in 1..Len(ElementList) }

Json(jtype, remark, elements) == [jtype |-> jtype, remark |-> remark, elements |-> elements]
NoJson == Json("none", "absent", NoList)

JsonValues ==
  { Json("null", "absent", NoList), Json("number", "absent", NoList),
    Json("object", "absent", NoList), Json("object", "empty", List(<< >>)),
    Json("object", "text", List(<< >>)) }
  \cup { Json("object", "absent", List(s)) : s \in ElementSeqs(MaxElements) }

Response(transport, ok, parseable, json) ==
  [transport |-> transport, ok |-> ok, parseable |-> parseable, json |-> json]
NoResponse == Response("none", FALSE, FALSE, NoJson)

Responses ==
  { Response("error", FALSE, FALSE, NoJson), Response("ok", FALSE, FALSE, NoJson),
    Response("ok", TRUE, FALSE, NoJson) }
  \cup { Response("ok", TRUE, TRUE, j) : j \in JsonValues }

\* Math.random() in thousandths
RandomDraws == { 0, 999 }

(***************************************************************************)
(* State.                                                                  *)
(***************************************************************************)
VARIABLES
  run,          \* which command runs: "retryCall", "fiber" or "schools"
  endpoints,    \* postJSONWithRetry: the endpoints argument
  maxAttempts,  \* postJSONWithRetry: options.maxAttempts
  baseDelayMs,  \* postJSONWithRetry: options.baseDelayMs
  attempt,      \* postJSONWithRetry: the loop counter
  rpc,          \* postJSONWithRetry: "idle", "fetch", "sleep", "returned", "thrown"
  requests,     \* the endpoints fetch was called with, in order
  lastResponse, \* the response to the latest fetch
  lastError,    \* postJSONWithRetry: lastError
  returned,     \* the value postJSONWithRetry resolved with
  thrown,       \* the error postJSONWithRetry rejected with
  delay,        \* the delay computed in the latest catch block
  lastLog,      \* the latest line written by console.warn / console.error
  warnCount,    \* number of console.warn lines
  mpc,          \* main of the fiber ETL: "start", "fetching", "cached", "done", "exited"
  rawFiles,     \* number of files written under data/raw in this run
  rawPath,      \* rawPath of main: the path of the cache file written
  fiberFile,    \* public/data/fiber.geojson
  fiberMeta,    \* the metadata member written to fiber.geojson
  overpassUrl,  \* process.env.OVERPASS_URL: 0 when unset or empty, else an endpoint
  exitCode,     \* the exit status of the process
  localFiles,   \* which of data/official_secondary_schools.{geojson,json,csv} exist
  localDoc,     \* the text of the local official file that is read
  url,          \* whether OFFICIAL_SCHOOLS_URL (or SECONDARY_SCHOOLS_URL) is set
  regions,      \* data/regions.json: "absent", "valid" or "invalid" (not JSON)
  spc,          \* main of the schools build: "start", "remoteFetch",
                \* "overpassFetch", "done", "failed"
  sourcing,     \* the sources tried so far: "local", "remote", "overpass"
  remoteDoc,    \* the text fetchText gave for the official URL
  lastReply,    \* what the latest Overpass request of the schools build gave
  overpassRequest, \* the endpoint fetchOverpass of the schools build posted to, 0 if none
  schoolsFile,  \* public/data/schools.geojson
  csvText,      \* parseCSV: the text argument
  csvPc,        \* "idle", "input", "detected", "parsed"
  csvDelimiter, \* the delimiter detectCSVDelimiter returned for the text's sample
  csvRows,      \* the rows parseCSV returned
  csvOut,       \* what rowsToGeoJSON gave for those rows
  fn,           \* the function applied on its own, "none" when a command runs
  arg,          \* its argument
  apc,          \* "idle", "ready", "applied"
  res,          \* its result
  schoolsPromise, \* lib/mapConfig.ts: schoolsPromise, 0 for null, else a promise
  promises,     \* the promises created by getSchoolsData and prefetchSchoolsData
  handed,       \* the promises getSchoolsData returned to its callers, in call order
  fiberVisible, \* components/Map.tsx: the state behind the Fiber checkbox
  schoolsVisible, \* the state behind the Schools checkbox
  mapPc,        \* the map: "none", "created", "loaded", "removed"
  mapFetch,     \* the request of the load handler: "none", "pending", "resolved", "failed"
  layers        \* the visibility of each layer of the map, "absent" before it is added

retryVars == << endpoints, maxAttempts, baseDelayMs, attempt, rpc, requests,
                lastResponse, lastError, returned, thrown, delay, lastLog, warnCount >>
fiberVars == << mpc, rawFiles, rawPath, fiberFile, fiberMeta >>
schoolsEnv == << localFiles, localDoc, url, regions >>
schoolsVars == << spc, sourcing, remoteDoc, lastReply, overpassRequest, schoolsFile >>
csvVars == << csvText, csvPc, csvDelimiter, csvRows, csvOut >>
applyVars == << fn, arg, apc, res >>
dataVars == << schoolsPromise, promises, handed >>
compVars == << fiberVisible, schoolsVisible, mapPc, mapFetch, layers >>
\* what the fiber ETL, the schools build, the CSV functions and a function applied
\* on its own leave alone
notFiber == << schoolsEnv, schoolsVars, csvVars, applyVars, dataVars, compVars >>
notSchools == << retryVars, fiberVars, csvVars, applyVars, dataVars, compVars >>
notCsv == << retryVars, fiberVars, exitCode, schoolsEnv, schoolsVars, applyVars, dataVars, compVars >>
notApply == << retryVars, fiberVars, exitCode, schoolsEnv, schoolsVars, csvVars, dataVars, compVars >>
notData ==
  << retryVars, fiberVars, exitCode, schoolsEnv, schoolsVars, csvVars, applyVars, compVars >>
notComp ==
  << retryVars, fiberVars, exitCode, schoolsEnv, schoolsVars, csvVars, applyVars, dataVars >>
vars == << run, overpassUrl, retryVars, fiberVars, exitCode, schoolsEnv, schoolsVars, csvVars,
           applyVars, dataVars, compVars >>

Err(kind, a) == [kind |-> kind, attempt |-> a]
NoError == Err("none", 0)

Log(level, a, ep, d) == [level |-> level, attempt |-> a, endpoint |-> ep, delay |-> d]
NoLog == Log("none", 0, 0, -1)

File(state, features) == [state |-> state, features |-> features]

\* A path: the segments of its directory and the name of the file
Path(dir, name) == [dir |-> dir, name |-> name]
NoPath == Path(<< >>, "none")

\* path.resolve(__dirname, '..'), the root of the repository
RepoRoot == << "/", "repo" >>
RAW_DIR == RepoRoot \o << "data", "raw" >>

\* hash(str): the first 12 hex digits of the SHA-256 digest of str
hash(str) == << "sha256", str, 12 >>

\* the values new Date() takes when the cache file is named
ClockValues == { 1, 2 }

\* path.join(RAW_DIR, `uganda-fiber-${ts}-${shortHash}.json`)
RawPathAt(ts) == Path(RAW_DIR, << "uganda-fiber", ts, hash("OVERPASS_QUERY") >>)

\* A variant that keeps the absolute path.
RelativeKeepingRoot(from, to) == to

\* path.relative(from, to) for a file under from
Relative(from, to) == Path(SubSeq(to.dir, Len(from) + 1, Len(to.dir)), to.name)

\* the file a path relative to the root names
Resolve(root, rel) == Path(root \o rel.dir, rel.name)

OVERPASS_ENDPOINTS == [i \in 1..NumOverpassEndpoints |-> i]

\* meta of main: the members the model follows
Meta(eps, cachePath) == [endpoints |-> eps, raw_cache_path |-> cachePath]
NoMeta == Meta(<< >>, NoPath)

(***************************************************************************)
(* postJSONWithRetry                                                       *)
(***************************************************************************)
\* A variant that indexes by attempt instead of attempt - 1.
EndpointForOffByOne(eps, a) == eps[(a % Len(eps)) + 1]

\* endpoints[(attempt - 1) % endpoints.length], the arrays being 0-based
EndpointFor(eps, a) == eps[((a - 1) % Len(eps)) + 1]

\* A variant without the check of json.remark.
TryBodyIgnoringRemark(resp, a) ==
  IF resp.transport = "error" THEN [throws |-> TRUE, err |-> Err("transport", a), json |-> NoJson]
  ELSE IF ~resp.ok THEN [throws |-> TRUE, err |-> Err("http", a), json |-> NoJson]
  ELSE IF ~resp.parseable THEN [throws |-> TRUE, err |-> Err("parse", a), json |-> NoJson]
  ELSE [throws |-> FALSE, err |-> NoError, json |-> resp.json]

\* The body of the try block on a response: the value returned or the error thrown.
TryBody(resp, a) ==
  IF resp.transport = "error" THEN [throws |-> TRUE, err |-> Err("transport", a), json |-> NoJson]
  ELSE IF ~resp.ok THEN [throws |-> TRUE, err |-> Err("http", a), json |-> NoJson]
  ELSE IF ~resp.parseable THEN [throws |-> TRUE, err |-> Err("parse", a), json |-> NoJson]
  ELSE IF resp.json.jtype = "object" /\ resp.json.remark = "text"
       THEN [throws |-> TRUE, err |-> Err("remark", a), json |-> NoJson]
  ELSE [throws |-> FALSE, err |-> NoError, json |-> resp.json]

RECURSIVE Pow2(_)
Pow2(n) == IF n = 0 THEN 1 ELSE 2 * Pow2(n - 1)

\* A variant whose exponent is attempt instead of attempt - 1.
ComputeDelayFromAttempt(d, a, r) == (d * Pow2(a) * (7000 + 6 * r) + 5000) \div 10000

\* Math.round(baseDelayMs * Math.pow(2, attempt - 1) * (0.7 + Math.random() * 0.6))
ComputeDelay(d, a, r) == (d * Pow2(a - 1) * (7000 + 6 * r) + 5000) \div 10000

\* Variants of the loop condition: attempt < maxAttempts, and a single attempt.
LoopContinuesOneShort(a, max) == a < max
LoopContinuesOnce(a, max) == a <= 1 /\ a <= max

\* The loop condition attempt <= maxAttempts
LoopContinues(a, max) == a <= max

\* The head of the for loop at attempt number a: the next fetch is issued, or the
\* loop ends and the function throws lastError || new Error(...).
LoopHead(a, eps, max, err) ==
  /\ attempt' = a
  /\ IF LoopContinues(a, max)
     THEN /\ rpc' = "fetch"
          /\ requests' = Append(requests, EndpointFor(eps, a))
          /\ thrown' = thrown
     ELSE /\ rpc' = "thrown"
          /\ requests' = requests
          /\ thrown' = IF err.kind = "none" THEN Err("generic", 0) ELSE err

\* A call of postJSONWithRetry(eps, bodyText, { maxAttempts: max, baseDelayMs: d })
Call(eps, max, d) ==
  /\ rpc = "idle"
  /\ endpoints' = eps
  /\ maxAttempts' = max
  /\ baseDelayMs' = d
  /\ LoopHead(1, eps, max, NoError)
  /\ UNCHANGED << lastResponse, lastError, returned, delay, lastLog, warnCount >>

\* A variant of the test in the catch block that warns and sleeps after every attempt.
WillRetryAlways(a, max) == a <= max

\* if (attempt < maxAttempts) in the catch block: warn and sleep, else console.error
WillRetry(a, max) == a < max

\* The awaited fetch settles with resp and the function runs up to its next await.
FetchSettles ==
  /\ rpc = "fetch"
  /\ \E resp \in Responses, r \in RandomDraws :
       LET out == TryBody(resp, attempt)
           d == ComputeDelay(baseDelayMs, attempt, r)
       IN  /\ lastResponse' = resp
           /\ IF ~out.throws
              THEN /\ rpc' = "returned"
                   /\ returned' = out.json
                   /\ UNCHANGED << attempt, requests, lastError, thrown, delay,
                                   lastLog, warnCount >>
              ELSE /\ lastError' = out.err
                   /\ delay' = d
                   /\ returned' = returned
                   /\ IF WillRetry(attempt, maxAttempts)
                      THEN /\ lastLog' = Log("warn", attempt,
                                             EndpointFor(endpoints, attempt), d)
                           /\ warnCount' = warnCount + 1
                           /\ rpc' = "sleep"
                           /\ UNCHANGED << attempt, requests, thrown >>
                      ELSE /\ lastLog' = Log("error", attempt, 0, -1)
                           /\ warnCount' = warnCount
                           /\ LoopHead(attempt + 1, endpoints, maxAttempts, out.err)
  /\ UNCHANGED << run, overpassUrl, endpoints, maxAttempts, baseDelayMs, fiberVars, exitCode,
                  notFiber >>

\* await sleep(delay) ends: attempt++ and the loop goes round.
SleepEnds ==
  /\ rpc = "sleep"
  /\ LoopHead(attempt + 1, endpoints, maxAttempts, lastError)
  /\ UNCHANGED << run, overpassUrl, endpoints, maxAttempts, baseDelayMs, lastResponse, lastError,
                  returned, delay, lastLog, warnCount, fiberVars, exitCode,
                  notFiber >>

\* postJSONWithRetry called on its own, with any endpoint list and maxAttempts and
\* the default baseDelayMs.
RetryCall ==
  /\ run = "retryCall"
  /\ \E n \in 1..MaxEndpoints, max \in 0..MaxAttemptsBound :
       Call([i \in 1..n |-> i], max, DefaultBaseDelayMs)
  /\ UNCHANGED << run, overpassUrl, fiberVars, exitCode, notFiber >>

(***************************************************************************)
(* main of the fiber ETL                                                   *)
(***************************************************************************)
\* ensureDir twice, then await postJSONWithRetry(OVERPASS_ENDPOINTS, OVERPASS_QUERY, ...)
FiberMainStart ==
  /\ run = "fiber"
  /\ mpc = "start"
  /\ Call(OVERPASS_ENDPOINTS, MainMaxAttempts, MainBaseDelayMs)
  /\ mpc' = "fetching"
  /\ UNCHANGED << run, overpassUrl, rawFiles, rawPath, fiberFile, fiberMeta, exitCode, notFiber >>

\* The await resolves: the raw response is cached.
FiberMainCache ==
  /\ mpc = "fetching"
  /\ rpc = "returned"
  /\ rawFiles' = rawFiles + 1
  /\ \E ts \in ClockValues : rawPath' = RawPathAt(ts)
  /\ mpc' = "cached"
  /\ UNCHANGED << run, overpassUrl, retryVars, fiberFile, fiberMeta, exitCode, notFiber >>

\* json.elements throws for a null payload, elementToGeoJSONFeature for a null vertex.
FiberBuildThrows(json) ==
  \/ json.jtype = "null"
  \/ json.elements.isArray /\ BuildThrows(json.elements.items)

\* The features main writes to fiber.geojson.
FiberFeatures(json) ==
  buildFeatures(IF json.elements.isArray THEN json.elements.items ELSE << >>)

\* meta, buildFeatureCollection and the write of fiber.geojson; an exception leaves
\* main through run().catch, which ends the process with status 1.
FiberMainWrite ==
  /\ mpc = "cached"
  /\ IF FiberBuildThrows(returned)
     THEN /\ mpc' = "exited"
          /\ exitCode' = 1
          /\ fiberFile' = fiberFile
          /\ fiberMeta' = fiberMeta
     ELSE /\ mpc' = "done"
          /\ exitCode' = exitCode
          /\ fiberFile' = File("written", FiberFeatures(returned))
          /\ fiberMeta' = Meta(OVERPASS_ENDPOINTS, Relative(RepoRoot, rawPath))
  /\ UNCHANGED << run, overpassUrl, retryVars, rawFiles, rawPath, notFiber >>

\* The await rejects: run().catch logs the error and calls process.exit(1).
FiberMainFail ==
  /\ mpc = "fetching"
  /\ rpc = "thrown"
  /\ mpc' = "exited"
  /\ exitCode' = 1
  /\ UNCHANGED << run, overpassUrl, retryVars, rawFiles, rawPath, fiberFile, fiberMeta, notFiber >>

(***************************************************************************)
(* The schools build: text helpers.  A string is a sequence of             *)
(* one-character strings.                                                  *)
(***************************************************************************)
\* the white space String.prototype.trim and \s remove, among the model's characters
IsSpace(c) == c \in { " ", "\t", "\n", "\r" }

RECURSIVE TrimStart(_)
TrimStart(s) == IF s # << >> /\ IsSpace(Head(s)) THEN TrimStart(Tail(s)) ELSE s

RECURSIVE TrimEnd(_)
TrimEnd(s) ==
  IF s # << >> /\ IsSpace(s[Len(s)]) THEN TrimEnd(SubSeq(s, 1, Len(s) - 1)) ELSE s

Trim(s) == TrimEnd(TrimStart(s))

\* text.replace(/\r\n/g, '\n').replace(/\r/g, '\n')
RECURSIVE NormalizeNewlines(_)
NormalizeNewlines(s) ==
  IF s = << >> THEN << >>
  ELSE IF Head(s) = "\r"
       THEN IF Len(s) >= 2 /\ s[2] = "\n"
            THEN << "\n" >> \o NormalizeNewlines(SubSeq(s, 3, Len(s)))
            ELSE << "\n" >> \o NormalizeNewlines(Tail(s))
       ELSE << Head(s) >> \o NormalizeNewlines(Tail(s))

\* s.split(sep)
RECURSIVE SplitOn(_, _)
SplitOn(s, sep) ==
  IF \A i \in 1..Len(s) : s[i] # sep THEN << s >>
  ELSE LET k == CHOOSE i \in 1..Len(s) : s[i] = sep /\ \A j \in 1..(i - 1) : s[j] # sep
       IN  << SubSeq(s, 1, k - 1) >> \o SplitOn(SubSeq(s, k + 1, Len(s)), sep)

\* lines.join('\n')
RECURSIVE JoinLines(_)
JoinLines(lines) ==
  IF lines = << >> THEN << >>
  ELSE IF Len(lines) = 1 THEN lines[1]
  ELSE lines[1] \o << "\n" >> \o JoinLines(Tail(lines))

\* while (lines.length && lines[0].trim() === '') lines.shift()
RECURSIVE SkipLeadingBlank(_)
SkipLeadingBlank(lines) ==
  IF lines # << >> /\ Trim(lines[1]) = << >> THEN SkipLeadingBlank(Tail(lines)) ELSE lines

IsKeyChar(c) == InSeq(c, LowerChars) \/ InSeq(c, DigitChars) \/ c = "_"

\* s.replace(/\s+/g, '')
RECURSIVE RemoveSpaces(_)
RemoveSpaces(s) ==
  IF s = << >> THEN << >>
  ELSE (IF IsSpace(Head(s)) THEN << >> ELSE << Head(s) >>) \o RemoveSpaces(Tail(s))

\* s.replace(/[^a-z0-9_]/g, '')
RECURSIVE KeepKeyChars(_)
KeepKeyChars(s) ==
  IF s = << >> THEN << >>
  ELSE (IF IsKeyChar(Head(s)) THEN << Head(s) >> ELSE << >>) \o KeepKeyChars(Tail(s))

\* normalizeKey
normalizeKey(s) == KeepKeyChars(RemoveSpaces(ToLowerCase(s)))

(***************************************************************************)
(* detectCSVDelimiter.  The pattern is built by new RegExp(`\${d}`, 'g'):  *)
(* the backslash escapes the dollar sign, so the template literal is the   *)
(* text ${d} for every candidate d, which as a regular expression is the   *)
(* end-of-input assertion followed by the literal characters { d }.        *)
(***************************************************************************)
PatternLiteral == << "{", "d", "}" >>

\* the pattern matches at 1-based position i of sample
PatternMatchesAt(sample, i) ==
  /\ i = Len(sample) + 1
  /\ i + Len(PatternLiteral) - 1 <= Len(sample)
  /\ SubSeq(sample, i, i + Len(PatternLiteral) - 1) = PatternLiteral

\* (sample.match(new RegExp(`\${d}`, 'g')) || []).length
MatchCount(sample, d) ==
  Cardinality({ i \in 1..(Len(sample) + 1) : PatternMatchesAt(sample, i) })

DelimiterCandidates == << ",", ";", "\t" >>

RECURSIVE DetectLoop(_, _, _, _)
DetectLoop(sample, cands, best, bestCount) ==
  IF cands = << >> THEN best
  ELSE LET count == MatchCount(sample, Head(cands))
       IN  IF count > bestCount
           THEN DetectLoop(sample, Tail(cands), Head(cands), count)
           ELSE DetectLoop(sample, Tail(cands), best, bestCount)

detectCSVDelimiter(sample) == DetectLoop(sample, DelimiterCandidates, ",", -1)

(***************************************************************************)
(* parseCSV                                                                *)
(***************************************************************************)
RECURSIVE SplitLoop(_, _, _, _, _, _)
SplitLoop(line, delimiter, i, out, cur, inQuotes) ==
  IF i > Len(line) THEN Append(out, cur)
  ELSE LET ch == line[i]
       IN  IF ch = "\""
           THEN IF inQuotes /\ i + 1 <= Len(line) /\ line[i + 1] = "\""
                THEN SplitLoop(line, delimiter, i + 2, out, Append(cur, "\""), inQuotes)
                ELSE SplitLoop(line, delimiter, i + 1, out, cur, ~inQuotes)
           ELSE IF ch = delimiter /\ ~inQuotes
                THEN SplitLoop(line, delimiter, i + 1, Append(out, cur), << >>, inQuotes)
                ELSE SplitLoop(line, delimiter, i + 1, out, Append(cur, ch), inQuotes)

\* A variant that splits at every delimiter, quoted or not.
splitLineIgnoringQuotes(line, delimiter) == SplitOn(line, delimiter)

splitLine(line, delimiter) == SplitLoop(line, delimiter, 1, << >>, << >>, FALSE)

\* A JavaScript object with string values: its keys in insertion order.
Entry(k, v) == [key |-> k, value |-> v]
HasKey(obj, k) == \E i \in 1..Len(obj) : obj[i].key = k
ObjSet(obj, k, v) ==
  IF HasKey(obj, k)
  THEN [i \in 1..Len(obj) |-> IF obj[i].key = k THEN Entry(k, v) ELSE obj[i]]
  ELSE Append(obj, Entry(k, v))

IndexOfKey(obj, k) == CHOOSE i \in 1..Len(obj) : obj[i].key = k

\* obj[k]: the value, or undefined
Cell(defined, s) == [defined |-> defined, s |-> s]
ObjGet(obj, k) ==
  IF HasKey(obj, k) THEN Cell(TRUE, obj[IndexOfKey(obj, k)].value) ELSE Cell(FALSE, << >>)

\* `col_${j}` for a 0-based column index j below 10
ColKey(j) == << "c", "o", "l", "_", DigitChars[j + 1] >>

\* obj[key] = cols[j] !== undefined ? cols[j] : '' for j = 0 .. header.length - 1
RECURSIVE RowLoop(_, _, _, _)
RowLoop(header, cols, j, obj) ==
  IF j >= Len(header) THEN obj
  ELSE LET key == IF header[j + 1] # << >> THEN header[j + 1] ELSE ColKey(j)
           val == IF j + 1 <= Len(cols) THEN cols[j + 1] ELSE << >>
       IN  RowLoop(header, cols, j + 1, ObjSet(obj, key, val))

RECURSIVE RowsLoop(_, _, _)
RowsLoop(lines, header, delimiter) ==
  IF lines = << >> THEN << >>
  ELSE IF Trim(Head(lines)) = << >> THEN RowsLoop(Tail(lines), header, delimiter)
  ELSE << RowLoop(header, splitLine(Head(lines), delimiter), 0, << >>) >>
       \o RowsLoop(Tail(lines), header, delimiter)

FirstLines(lines, n) == SubSeq(lines, 1, IF Len(lines) < n THEN Len(lines) ELSE n)

\* the sample parseCSV hands to detectCSVDelimiter
SampleOf(lines) == JoinLines(FirstLines(lines, SampleLines))

parseCSV(text) ==
  LET lines == SkipLeadingBlank(SplitOn(NormalizeNewlines(text), "\n"))
  IN  IF lines = << >> THEN << >>
      ELSE LET delimiter == detectCSVDelimiter(SampleOf(lines))
               cells == splitLine(lines[1], delimiter)
               header == [i \in 1..Len(cells) |-> Trim(cells[i])]
           IN  RowsLoop(Tail(lines), header, delimiter)

(***************************************************************************)
(* detectField, toNumber, rowsToGeoJSON                                    *)
(***************************************************************************)
LatCandidates ==
  << << "l", "a", "t" >>,
     << "l", "a", "t", "i", "t", "u", "d", "e" >>,
     << "y" >>,
     << "g", "e", "o", "m", "_", "l", "a", "t" >>,
     << "L", "a", "t", "i", "t", "u", "d", "e" >>,
     << "L", "a", "t" >> >>

LonCandidates ==
  << << "l", "o", "n" >>,
     << "l", "n", "g" >>,
     << "l", "o", "n", "g", "i", "t", "u", "d", "e" >>,
     << "x" >>,
     << "g", "e", "o", "m", "_", "l", "o", "n" >>,
     << "L", "o", "n", "g", "i", "t", "u", "d", "e" >>,
     << "L", "o", "n", "g" >>,
     << "L", "n", "g" >> >>

\* normMap.get(n): the last key of obj whose normalized form is n
NormMapHas(obj, n) == \E i \in 1..Len(obj) : normalizeKey(obj[i].key) = n
NormMapGet(obj, n) ==
  LET last == CHOOSE i \in 1..Len(obj) :
                 /\ normalizeKey(obj[i].key) = n
                 /\ \A j \in (i + 1)..Len(obj) : normalizeKey(obj[j].key) # n
  IN  obj[last].key

Found(found, key) == [found |-> found, key |-> key]

\* detectField: the first candidate that names a (non-empty) key of obj, or null
RECURSIVE detectField(_, _)
detectField(obj, candidates) ==
  IF candidates = << >> THEN Found(FALSE, << >>)
  ELSE LET n == normalizeKey(Head(candidates))
       IN  IF NormMapHas(obj, n) /\ NormMapGet(obj, n) # << >>
           THEN Found(TRUE, NormMapGet(obj, n))
           ELSE detectField(obj, Tail(candidates))

IsDigit(c) == InSeq(c, DigitChars)

RECURSIVE DigitsValue(_)
DigitsValue(s) ==
  IF s = << >> THEN 0
  ELSE 10 * DigitsValue(SubSeq(s, 1, Len(s) - 1)) + (IndexIn(s[Len(s)], DigitChars) - 1)

AllDigits(s) == s # << >> /\ \A i \in 1..Len(s) : IsDigit(s[i])

\* Number(str) for a string of digits, signs, spaces and letters other than those of
\* Infinity, hexadecimal and exponent forms: NaN is [nan |-> TRUE].
Number(nan, n) == [nan |-> nan, n |-> n]
ToNumeric(str) ==
  LET t == Trim(str)
  IN  IF t = << >> THEN Number(FALSE, 0)
      ELSE IF AllDigits(t) THEN Number(FALSE, DigitsValue(t))
      ELSE IF Head(t) = "-" /\ AllDigits(Tail(t)) THEN Number(FALSE, 0 - DigitsValue(Tail(t)))
      ELSE IF Head(t) = "+" /\ AllDigits(Tail(t)) THEN Number(FALSE, DigitsValue(Tail(t)))
      ELSE Number(TRUE, 0)

\* String(n) of a cell: the text of a string, "undefined" of undefined
StringOf(cell) == IF cell.defined THEN cell.s ELSE << "u", "n", "d", "e", "f", "i", "n", "e", "d" >>

\* toNumber: Number.isFinite(x) ? x : null
toNumber(cell) ==
  LET x == ToNumeric(Trim(StringOf(cell)))
  IN  IF x.nan THEN NULL ELSE Num(x.n)

(***************************************************************************)
(* Property values and objects.  A value is undefined, null, a string, a   *)
(* number or an array, with s the text String(v) gives for it; an object   *)
(* is the list of its entries in insertion order, keys being strings.      *)
(***************************************************************************)
PVal(t, s) == [t |-> t, s |-> s]
PUndefined == PVal("undefined", << >>)
PNull == PVal("null", << >>)
PStr(s) == PVal("string", s)

\* if (v): '', 0, NaN, null and undefined are falsy, arrays are truthy
Truthy(v) ==
  \/ v.t = "string" /\ v.s # << >>
  \/ v.t = "number" /\ v.s # << "0" >> /\ v.s # << "N", "a", "N" >>
  \/ v.t = "array"

\* obj[key]
PropGet(obj, key) ==
  IF \E i \in 1..Len(obj) : obj[i].key = key
  THEN obj[CHOOSE i \in 1..Len(obj) : obj[i].key = key].value
  ELSE PUndefined

\* obj[key] = value: an existing key keeps its place
PropSet(obj, key, value) ==
  IF \E i \in 1..Len(obj) : obj[i].key = key
  THEN [i \in 1..Len(obj) |-> IF obj[i].key = key THEN [key |-> key, value |-> value] ELSE obj[i]]
  ELSE Append(obj, [key |-> key, value |-> value])

\* obj[k1] || obj[k2] || ...: the first truthy value, else the last one
RECURSIVE OrChain(_, _)
OrChain(obj, keys) ==
  IF Len(keys) = 1 THEN PropGet(obj, keys[1])
  ELSE IF Truthy(PropGet(obj, keys[1])) THEN PropGet(obj, keys[1])
  ELSE OrChain(obj, Tail(keys))

\* v || null
OrNull(v) == IF Truthy(v) THEN v ELSE PNull

KOwnership == << "o", "w", "n", "e", "r", "s", "h", "i", "p" >>
KOperatorTypeTag == << "o", "p", "e", "r", "a", "t", "o", "r", ":", "t", "y", "p", "e" >>
KOperatorType == << "o", "p", "e", "r", "a", "t", "o", "r", "_", "t", "y", "p", "e" >>
KOperatorTypeCamel == << "o", "p", "e", "r", "a", "t", "o", "r", "T", "y", "p", "e" >>
KManagement == << "m", "a", "n", "a", "g", "e", "m", "e", "n", "t" >>
KOperator == << "o", "p", "e", "r", "a", "t", "o", "r" >>
KGender == << "g", "e", "n", "d", "e", "r" >>
KGenderOfStudents == << "g", "e", "n", "d", "e", "r", "_", "o", "f", "_", "s", "t", "u", "d", "e", "n", "t", "s" >>
KSex == << "s", "e", "x" >>
KStudentGender == << "s", "t", "u", "d", "e", "n", "t", ":", "g", "e", "n", "d", "e", "r" >>
KDistrict == << "d", "i", "s", "t", "r", "i", "c", "t" >>
KAddrDistrict == << "a", "d", "d", "r", ":", "d", "i", "s", "t", "r", "i", "c", "t" >>
KIsInDistrict == << "i", "s", "_", "i", "n", ":", "d", "i", "s", "t", "r", "i", "c", "t" >>
KAdmin2 == << "a", "d", "m", "i", "n", "2" >>
KAdm2Name == << "A", "D", "M", "2", "_", "N", "A", "M", "E" >>
KSubcounty == << "s", "u", "b", "c", "o", "u", "n", "t", "y" >>
KRegion == << "r", "e", "g", "i", "o", "n" >>
KAdm1Name == << "A", "D", "M", "1", "_", "N", "A", "M", "E" >>
KProvince == << "p", "r", "o", "v", "i", "n", "c", "e" >>
KName == << "n", "a", "m", "e" >>
KOfficialName == << "o", "f", "f", "i", "c", "i", "a", "l", "_", "n", "a", "m", "e" >>

\* /pat\b/.test(s): the text ends at a word boundary
ContainsAtWordEnd(s, pat) ==
  \E i \in 1..(Len(s) - Len(pat) + 1) :
     /\ SubSeq(s, i, i + Len(pat) - 1) = pat
     /\ (i + Len(pat) > Len(s) \/ ~IsKeyChar(s[i + Len(pat)]))

ContainsAny(s, patterns) == \E k \in 1..Len(patterns) : Contains(s, patterns[k])

GovernmentPatterns ==
  << << "g", "o", "v" >>,
     << "p", "u", "b", "l", "i", "c" >>,
     << "s", "t", "a", "t", "e" >> >>
PrivatePatterns ==
  << << "p", "r", "i", "v", "a", "t", "e" >>,
     << "n", "g", "o" >>,
     << "f", "o", "u", "n", "d", "a", "t", "i", "o", "n" >>,
     << "i", "n", "d", "e", "p", "e", "n", "d", "e", "n", "t" >> >>
ReligiousPatterns ==
  << << "r", "e", "l", "i", "g" >>,
     << "c", "a", "t", "h", "o", "l", "i", "c" >>,
     << "a", "n", "g", "l", "i", "c", "a", "n" >>,
     << "m", "u", "s", "l", "i", "m" >>,
     << "c", "h", "u", "r", "c", "h" >>,
     << "i", "s", "l", "a", "m" >> >>
MixedPatterns ==
  << << "m", "i", "x", "e", "d" >>,
     << "c", "o", "e", "d" >>,
     << "c", "o", "-", "e", "d" >>,
     << "u", "n", "i", "s", "e", "x" >> >>

Unknown == << "u", "n", "k", "n", "o", "w", "n" >>

\* String(v)
StringOfValue(v) ==
  IF v.t = "undefined" THEN << "u", "n", "d", "e", "f", "i", "n", "e", "d" >>
  ELSE IF v.t = "null" THEN << "n", "u", "l", "l" >>
  ELSE v.s

\* the classification of guessOwnership on the lower-case text s
OwnershipOf(s) ==
  IF ContainsAny(s, GovernmentPatterns) THEN << "g", "o", "v", "e", "r", "n", "m", "e", "n", "t" >>
  ELSE IF ContainsAny(s, PrivatePatterns) THEN << "p", "r", "i", "v", "a", "t", "e" >>
  ELSE IF ContainsAny(s, ReligiousPatterns) THEN << "r", "e", "l", "i", "g", "i", "o", "u", "s" >>
  ELSE IF s # << >> THEN s
  ELSE Unknown

\* A variant of guessOwnership without its first line, if (!v) return 'unknown'.
guessOwnershipUnguarded(v) == OwnershipOf(ToLowerCase(StringOfValue(v)))

guessOwnership(v) ==
  IF ~Truthy(v) THEN Unknown ELSE OwnershipOf(ToLowerCase(StringOfValue(v)))

guessGender(v) ==
  IF ~Truthy(v) THEN Unknown
  ELSE LET s == ToLowerCase(StringOfValue(v))
       IN  IF Contains(s, << "b", "o", "y", "s" >>) \/ ContainsAtWordEnd(s, << "m", "a", "l", "e" >>)
           THEN << "b", "o", "y", "s" >>
           ELSE IF Contains(s, << "g", "i", "r", "l", "s" >>) \/ ContainsAtWordEnd(s, << "f", "e", "m", "a", "l", "e" >>)
           THEN << "g", "i", "r", "l", "s" >>
           ELSE IF ContainsAny(s, MixedPatterns) THEN << "m", "i", "x", "e", "d" >>
           ELSE IF s # << >> THEN s
           ELSE Unknown

(***************************************************************************)
(* normalizeDistrictName, buildDistrictToRegionMap and the region lookup   *)
(* of enrichProperties                                                     *)
(***************************************************************************)
DistrictWord == << "d", "i", "s", "t", "r", "i", "c", "t" >>

\* /\bdistrict\b/ matches at index i of s (lower case): a word character is one of
\* [a-z0-9_]
DistrictAt(s, i) ==
  /\ i + 7 <= Len(s)
  /\ SubSeq(s, i, i + 7) = DistrictWord
  /\ (i = 1 \/ ~IsKeyChar(s[i - 1]))
  /\ (i + 8 > Len(s) \/ ~IsKeyChar(s[i + 8]))

\* s.replace(/\bdistrict\b/g, ''), from index i on
RECURSIVE RemoveDistrictFrom(_, _)
RemoveDistrictFrom(s, i) ==
  IF i > Len(s) THEN << >>
  ELSE IF DistrictAt(s, i) THEN RemoveDistrictFrom(s, i + 8)
  ELSE << s[i] >> \o RemoveDistrictFrom(s, i + 1)

\* s.replace(/\s+/g, ' ')
RECURSIVE CollapseSpaces(_)
CollapseSpaces(s) ==
  IF s = << >> THEN << >>
  ELSE IF IsSpace(Head(s)) THEN << " " >> \o CollapseSpaces(TrimStart(Tail(s)))
  ELSE << Head(s) >> \o CollapseSpaces(Tail(s))

\* s.replace(/[^a-z\s]/g, '')
KeepLettersAndSpaces(s) == SelectSeq(s, LAMBDA c : InSeq(c, LowerChars) \/ IsSpace(c))

normalizeDistrictName(name) ==
  IF name = << >> THEN << >>
  ELSE Trim(KeepLettersAndSpaces(CollapseSpaces(RemoveDistrictFrom(Trim(ToLowerCase(name)), 1))))

\* data/regions.json in its flat shape, region -> districts, as the list of its
\* (district, region) pairs in the order buildDistrictToRegionMap visits them
RegionsTable ==
  << [district |-> << "K", "a", "m", "p", "a", "l", "a" >>, region |-> << "C", "e", "n", "t", "r", "a", "l" >>],
     [district |-> << "F", "o", "r", "t", " ", "P", "o", "r", "t", "a", "l" >>, region |-> << "W", "e", "s", "t", "e", "r", "n" >>],
     [district |-> << "G", "u", "l", "u", " ", "D", "i", "s", "t", "r", "i", "c", "t" >>, region |-> << "N", "o", "r", "t", "h", "e", "r", "n" >>] >>

\* buildDistrictToRegionMap: mapping[normalizeDistrictName(d)] = String(region); a
\* later pair overwrites an earlier one with the same key
buildDistrictToRegionMap(table) ==
  [i \in 1..Len(table) |-> [key |-> normalizeDistrictName(table[i].district),
                            region |-> table[i].region]]

\* A variant that looks the district up as it is written, lower-cased only.
RegionOfUnnormalized(mapping, district) ==
  LET hits == { i \in 1..Len(mapping) : mapping[i].key = ToLowerCase(district) }
  IN  IF district = << >> \/ hits = { } THEN PNull
      ELSE PStr(mapping[CHOOSE i \in hits : \A j \in hits : j <= i].region)

\* districtToRegion[normalizeDistrictName(p.district)] || null, for a truthy district
RegionOf(mapping, district) ==
  LET key == normalizeDistrictName(district)
      hits == { i \in 1..Len(mapping) : mapping[i].key = key }
  IN  IF district = << >> \/ hits = { } THEN PNull
      ELSE PStr(mapping[CHOOSE i \in hits : \A j \in hits : j <= i].region)

\* enrichProperties(props, districtToRegion)
enrichProperties(props, mapping) ==
  LET p1 == PropSet(props, KOwnership,
                    PStr(guessOwnership(OrChain(props, << KOwnership, KOperatorTypeTag,
                                                          KOperatorType, KOperatorTypeCamel,
                                                          KManagement >>))))
      p2 == PropSet(p1, KGender,
                    PStr(guessGender(OrChain(p1, << KGender, KGenderOfStudents, KSex >>))))
      district == OrNull(OrChain(p2, << KDistrict, KAddrDistrict, KIsInDistrict, KAdmin2,
                                        KAdm2Name, KSubcounty >>))
      p3 == PropSet(p2, KDistrict, district)
      region == OrNull(OrChain(p3, << KRegion, KAdm1Name, KProvince >>))
      found == IF ~Truthy(region) /\ Truthy(district)
               THEN RegionOf(mapping, StringOfValue(district))
               ELSE region
  IN  PropSet(p3, KRegion, found)

NameCandidates ==
  << << "n", "a", "m", "e" >>,
     << "s", "c", "h", "o", "o", "l" >>,
     << "s", "c", "h", "o", "o", "l", "_", "n", "a", "m", "e" >>,
     << "n", "a", "m", "e", "_", "o", "f", "_", "s", "c", "h", "o", "o", "l" >>,
     << "N", "a", "m", "e" >> >>
OwnershipCandidates ==
  << << "o", "w", "n", "e", "r", "s", "h", "i", "p" >>,
     << "o", "w", "n", "e", "r", "s", "h", "i", "p", "_", "t", "y", "p", "e" >>,
     << "m", "a", "n", "a", "g", "e", "m", "e", "n", "t" >>,
     << "o", "p", "e", "r", "a", "t", "o", "r", ":", "t", "y", "p", "e" >> >>
GenderCandidates ==
  << << "g", "e", "n", "d", "e", "r" >>,
     << "g", "e", "n", "d", "e", "r", "_", "o", "f", "_", "s", "t", "u", "d", "e", "n", "t", "s" >>,
     << "s", "e", "x" >> >>
DistrictCandidates ==
  << << "d", "i", "s", "t", "r", "i", "c", "t" >>,
     << "a", "d", "m", "2" >>,
     << "a", "d", "m", "i", "n", "2" >>,
     << "A", "D", "M", "2", "_", "N", "A", "M", "E" >> >>

PointFeature(lon, lat) ==
  [geometry |-> [type |-> "Point", coordinates |-> << lon, lat >>]]

\* r[key] as a property value
CellValue(cell) == IF cell.defined THEN PStr(cell.s) ELSE PUndefined

\* if (key) props[name] = r[key]
SetIfFound(props, name, r, found) ==
  IF found.found THEN PropSet(props, name, CellValue(ObjGet(r, found.key))) ELSE props

\* props of the feature of row r: name, ownership, gender and district, from the
\* columns detected on the first row
RowProps(r, first) ==
  SetIfFound(SetIfFound(SetIfFound(SetIfFound(<< >>,
      KName, r, detectField(first, NameCandidates)),
      KOwnership, r, detectField(first, OwnershipCandidates)),
      KGender, r, detectField(first, GenderCandidates)),
      KDistrict, r, detectField(first, DistrictCandidates))

RECURSIVE RowFeatures(_, _, _, _)
RowFeatures(rows, latKey, lonKey, first) ==
  IF rows = << >> THEN << >>
  ELSE LET lat == toNumber(ObjGet(Head(rows), latKey))
           lon == toNumber(ObjGet(Head(rows), lonKey))
       IN  (IF lat.t = "null" \/ lon.t = "null" THEN << >>
            ELSE << [geometry |-> PointFeature(lon, lat).geometry,
                     properties |-> RowProps(Head(rows), first)] >>)
           \o RowFeatures(Tail(rows), latKey, lonKey, first)

Outcome(throws, features) == [throws |-> throws, features |-> features]

\* rowsToGeoJSON: the features, or the Error for a table without lat/lon columns
rowsToGeoJSON(rows) ==
  IF rows = << >> THEN Outcome(FALSE, << >>)
  ELSE LET latKey == detectField(rows[1], LatCandidates)
           lonKey == detectField(rows[1], LonCandidates)
       IN  IF ~latKey.found \/ ~lonKey.found THEN Outcome(TRUE, << >>)
           ELSE Outcome(FALSE, RowFeatures(rows, latKey.key, lonKey.key, rows[1]))

(***************************************************************************)
(* basicCentroid, toPointGeometry, coerceToPoints, anyToFeatureCollection. *)
(* A position is a sequence of values; coordinates nest positions to the   *)
(* depth of the geometry type.  The features of the schools build are      *)
(* modelled by their geometry.                                             *)
(***************************************************************************)
\* Array.isArray(c) && typeof c[0] === 'number' && typeof c[1] === 'number'
IsNumericPair(c) == Len(c) >= 2 /\ TypeofNumber(c[1]) /\ TypeofNumber(c[2])

RECURSIVE SumOf(_, _)
SumOf(coords, k) ==
  IF coords = << >> THEN 0
  ELSE (IF IsNumericPair(Head(coords)) THEN Head(coords)[k].n ELSE 0) + SumOf(Tail(coords), k)

CountPairs(coords) == Cardinality({ i \in 1..Len(coords) : IsNumericPair(coords[i]) })

\* basicCentroid: [sx / n, sy / n], or null when no pair counts.  The quotient is
\* exact on the model's inputs, whose sums are multiples of their counts.
basicCentroid(coords) ==
  LET n == CountPairs(coords)
  IN  IF n = 0 THEN NoList
      ELSE List(<< Num(SumOf(coords, 1) \div n), Num(SumOf(coords, 2) \div n) >>)

\* Array.prototype.flat(): one level
RECURSIVE Flat(_)
Flat(a) == IF a = << >> THEN << >> ELSE Head(a) \o Flat(Tail(a))

Geometry(type, coordinates) == [type |-> type, coordinates |-> coordinates]
PointGeometry(isNull, coordinates) == [isNull |-> isNull, coordinates |-> coordinates]

\* toPointGeometry: null, or a Point whose coordinates are an array or null
toPointGeometry(geometry) ==
  IF geometry.type = "none" THEN PointGeometry(TRUE, NoList)
  ELSE IF geometry.type = "Point" THEN PointGeometry(FALSE, List(geometry.coordinates))
  ELSE IF geometry.type = "MultiPoint"
       THEN PointGeometry(FALSE, IF geometry.coordinates = << >> THEN NoList
                                 ELSE List(geometry.coordinates[1]))
  ELSE IF geometry.type = "LineString"
       THEN PointGeometry(FALSE, basicCentroid(geometry.coordinates))
  ELSE IF geometry.type \in { "MultiLineString", "Polygon" }
       THEN PointGeometry(FALSE, basicCentroid(Flat(geometry.coordinates)))
  ELSE IF geometry.type = "MultiPolygon"
       THEN PointGeometry(FALSE, basicCentroid(Flat(Flat(geometry.coordinates))))
  ELSE PointGeometry(TRUE, NoList)

SchoolFeature(coordinates, properties) ==
  [geometry |-> [type |-> "Point", coordinates |-> coordinates], properties |-> properties]

\* coerceToPoints
RECURSIVE coerceToPoints(_)
coerceToPoints(features) ==
  IF features = << >> THEN << >>
  ELSE LET geom == toPointGeometry(Head(features).geometry)
           skip == \/ geom.isNull
                   \/ ~geom.coordinates.isArray
                   \/ \E i \in 1..Len(geom.coordinates.items) :
                         ~TypeofNumber(geom.coordinates.items[i])
       IN  (IF skip THEN << >>
            ELSE << SchoolFeature(geom.coordinates.items, Head(features).properties) >>)
           \o coerceToPoints(Tail(features))

\* A parsed JSON document of an official dataset: kind is "falsy" (null, 0, false,
\* ""), "FeatureCollection", "array", "wrapped" (a features key without the type) or
\* "other".
OfficialJson(kind, features) == [kind |-> kind, features |-> features]

\* anyToFeatureCollection
anyToFeatureCollection(obj) ==
  IF obj.kind \in { "FeatureCollection", "array", "wrapped" } THEN obj.features ELSE << >>

EnrichNameCandidates ==
  << << "n", "a", "m", "e" >>,
     << "s", "c", "h", "o", "o", "l" >>,
     << "s", "c", "h", "o", "o", "l", "_", "n", "a", "m", "e" >>,
     << "N", "a", "m", "e" >> >>

\* const districtToRegion = buildDistrictToRegionMap(regionsJson) in main: regionsJson
\* is {} when data/regions.json is absent
districtToRegion ==
  IF regions = "valid" THEN buildDistrictToRegionMap(RegionsTable) ELSE << >>

\* props of enrichFeatureCollection before enrichProperties: name is taken from the
\* first name-like key when props.name is falsy
WithName(props) ==
  LET nameKey == detectField(props, EnrichNameCandidates)
  IN  IF nameKey.found /\ ~Truthy(PropGet(props, KName))
      THEN PropSet(props, KName, PropGet(props, nameKey.key))
      ELSE props

\* enrichFeatureCollection(fc, districtToRegion): the geometry is kept, the properties
\* are enriched
enrichFeatureCollection(features) ==
  [i \in 1..Len(features) |->
     [geometry |-> features[i].geometry,
      properties |-> enrichProperties(WithName(features[i].properties), districtToRegion)]]

(***************************************************************************)
(* Documents: the text of a file or of a response body.  JSON.parse is     *)
(* not modelled character by character: a document that parses carries    *)
(* its parsed value.                                                       *)
(***************************************************************************)
Doc(parses, json, text) == [parses |-> parses, json |-> json, text |-> text]
NoDoc == Doc(FALSE, OfficialJson("other", << >>), << >>)

\* a feature of an official dataset; properties is << >> for {} and for none
OFeature(geometry, properties) == [geometry |-> geometry, properties |-> properties]

Prop(key, value) == [key |-> key, value |-> value]

P(x, y) == << Num(x), Num(y) >>

OfficialFeatureList ==
  << OFeature(Geometry("Point", P(32, 0)),
              << Prop(KOwnership, PStr(<< "G", "o", "v", "e", "r", "n", "m", "e", "n", "t", " ", "A", "i", "d", "e", "d" >>)),
                 Prop(KSex, PStr(<< "F", "e", "m", "a", "l", "e" >>)),
                 Prop(KAdm2Name, PStr(<< "K", "a", "m", "p", "a", "l", "a", " ", "D", "i", "s", "t", "r", "i", "c", "t" >>)) >>),
     OFeature(Geometry("Point", << STR, STR >>), << >>),
     OFeature(Geometry("none", << >>), << >>),
     OFeature(Geometry("LineString", << P(30, 0), P(32, 2) >>),
              << Prop(KOwnership, PNull),
                 Prop(KManagement, PStr(<< "C", "o", "m", "m", "u", "n", "i", "t", "y" >>)),
                 Prop(KGender, PVal("array", << >>)) >>),
     OFeature(Geometry("LineString", << >>), << >>),
     OFeature(Geometry("Polygon", << << P(0, 0), P(4, 0), P(4, 4), P(0, 4) >> >>),
              << Prop(KOwnership, PStr(<< " " >>)),
                 Prop(KGender, PVal("number", << "0" >>)),
                 Prop(KRegion, PStr(<< "E", "a", "s", "t", "e", "r", "n" >>)) >>) >>

RECURSIVE OfficialFeatureSeqs(_)
OfficialFeatureSeqs(n) ==
  IF n = 0 THEN << << >> >>
  ELSE LET shorter == OfficialFeatureSeqs(n - 1)
           longest == SelectSeq(shorter, LAMBDA s : Len(s) = n - 1)
       IN  shorter \o  [k \in 1..(Len(longest) * Len(OfficialFeatureList)) |->
                          Append(longest[((k - 1) \div Len(OfficialFeatureList)) + 1],
                                 OfficialFeatureList[((k - 1) % Len(OfficialFeatureList)) + 1])]

CsvTextList ==
  << << "y", ",", "x", "\n", "1", ",", "2" >>,
     << "y", ",", "x", "\n", "1", ",", "2", "\n", ",", "5" >>,
     << "y", ",", "x" >>,
     << "y", ";", "x", "\n", "1", ";", "2" >>,
     << "n", "a", "m", "e", "\n", "a" >>,
     << "L", "a", "t", ",", "L", "n", "g", "\n", "3", ",", "4", "\n", "a", ",", "b" >>,
     << "y", ",", "x", ",", "M", "a", "n", "a", "g", "e", "m", "e", "n", "t", ",", "S", "e", "x", ",", "D", "i", "s", "t", "r", "i", "c", "t", "\n", "1", ",", "2", ",", "C", "a", "t", "h", "o", "l", "i", "c", " ", "C", "h", "u", "r", "c", "h", ",", ",", "F", "o", "r", "t", " ", "P", "o", "r", "t", "a", "l", "\n", "3", ",", "4", ",", ",", "b", "o", "y", "s" >> >>

\* The documents an official source (a local file, the remote URL) can hold.
OfficialDocs ==
  LET seqs == OfficialFeatureSeqs(MaxFeatures)
  IN  [i \in 1..Len(seqs) |-> Doc(TRUE, OfficialJson("FeatureCollection", seqs[i]), << >>)]
      \o << Doc(TRUE, OfficialJson("array", << OfficialFeatureList[1] >>), << >>),
            Doc(TRUE, OfficialJson("wrapped", << OfficialFeatureList[4] >>), << >>),
            Doc(TRUE, OfficialJson("other", << >>), << >>),
            Doc(TRUE, OfficialJson("falsy", << >>), << "0" >>),
            Doc(FALSE, OfficialJson("other", << >>), << "{" >>) >>
      \o [i \in 1..Len(CsvTextList) |->
            Doc(FALSE, OfficialJson("other", << >>), CsvTextList[i])]

\* tryParseJSON(text) is null: the text does not parse
TryParseFails(doc) == ~doc.parses
\* if (json) / if (!json)
JsonTruthy(doc) == doc.parses /\ doc.json.kind # "falsy"

(***************************************************************************)
(* tryLoadOfficialDataset                                                  *)
(***************************************************************************)
LocalCandidates == << "geojson", "json", "csv" >>

\* tryReadLocalOfficialDataset: the first candidate that exists, or "none"
RECURSIVE FirstExisting(_, _)
FirstExisting(cands, existing) ==
  IF cands = << >> THEN "none"
  ELSE IF Head(cands) \in existing THEN Head(cands)
  ELSE FirstExisting(Tail(cands), existing)

tryReadLocalOfficialDataset(existing) == FirstExisting(LocalCandidates, existing)

Loaded(throws, isNull, source, features) ==
  [throws |-> throws, isNull |-> isNull, source |-> source, features |-> features]
LoadedNull == Loaded(FALSE, TRUE, "none", << >>)
LoadThrows == Loaded(TRUE, TRUE, "none", << >>)

\* The branch of tryLoadOfficialDataset for a local file with extension ext.
\* A variant of the local load that leaves out coerceToPoints.
LoadLocalUncoerced(ext, doc) ==
  IF ext = "csv"
  THEN LET fc == rowsToGeoJSON(parseCSV(doc.text))
       IN  IF fc.throws THEN LoadThrows
           ELSE Loaded(FALSE, FALSE, "official-local", enrichFeatureCollection(fc.features))
  ELSE IF ~JsonTruthy(doc) THEN LoadThrows
  ELSE Loaded(FALSE, FALSE, "official-local",
              enrichFeatureCollection(anyToFeatureCollection(doc.json)))

LoadLocal(ext, doc) ==
  IF ext = "csv"
  THEN LET fc == rowsToGeoJSON(parseCSV(doc.text))
       IN  IF fc.throws THEN LoadThrows
           ELSE Loaded(FALSE, FALSE, "official-local", enrichFeatureCollection(fc.features))
  ELSE IF ~JsonTruthy(doc) THEN LoadThrows
  ELSE Loaded(FALSE, FALSE, "official-local",
              enrichFeatureCollection(coerceToPoints(anyToFeatureCollection(doc.json))))

\* The rest of tryLoadOfficialDataset once fetchText(url) has given the text.
LoadRemote(doc) ==
  IF JsonTruthy(doc)
  THEN Loaded(FALSE, FALSE, "official-remote",
              enrichFeatureCollection(coerceToPoints(anyToFeatureCollection(doc.json))))
  ELSE LET rows == parseCSV(doc.text)
       IN  IF rows # << >>
           THEN LET fc == rowsToGeoJSON(rows)
                IN  IF fc.throws THEN LoadThrows
                    ELSE Loaded(FALSE, FALSE, "official-remote-csv",
                                enrichFeatureCollection(fc.features))
           ELSE LoadedNull

\* A variant that also asks for at least one feature.
HasCollectionNonEmpty(r) == ~r.throws /\ ~r.isNull /\ r.features # << >>

\* if (result && result.collection) in main
HasCollection(r) == ~r.throws /\ ~r.isNull

(***************************************************************************)
(* fetchOverpass of the schools build (out center tags)                    *)
(***************************************************************************)
Center(present, lon, lat) == [present |-> present, lon |-> lon, lat |-> lat]
NoCenter == Center(FALSE, UNDEF, UNDEF)
\* tags is << >> for {} and for no tags
SchoolElement(type, lon, lat, center, tags) ==
  [type |-> type, lon |-> lon, lat |-> lat, center |-> center, tags |-> tags]

SchoolElementList ==
  << SchoolElement("node", Num(32), Num(0), NoCenter,
                   << Prop(KName, PStr(<< "G", "u", "l", "u", " ", "H", "i", "g", "h" >>)),
                      Prop(KOperatorTypeTag, PStr(<< "p", "u", "b", "l", "i", "c" >>)),
                      Prop(KStudentGender, PStr(<< "M", "i", "x", "e", "d" >>)),
                      Prop(KAddrDistrict, PStr(<< "G", "u", "l", "u" >>)) >>),
     SchoolElement("node", UNDEF, UNDEF, NoCenter, << >>),
     SchoolElement("way", UNDEF, UNDEF, Center(TRUE, Num(31), Num(1)), << >>),
     SchoolElement("relation", UNDEF, UNDEF, Center(TRUE, UNDEF, Num(1)),
                   << Prop(KOperator, PStr(<< "C", "h", "u", "r", "c", "h", " ", "o", "f", " ", "U", "g", "a", "n", "d", "a" >>)) >>) >>

\* props of fetchOverpass for an element with these tags
OverpassProps(tags) ==
  LET p1 == PropSet(tags, KName, OrNull(OrChain(tags, << KName, KOfficialName >>)))
      p2 == PropSet(p1, KOwnership,
                    OrChain(p1, << KOwnership, KOperatorTypeTag, KOperatorType, KOperator >>))
      p3 == PropSet(p2, KGender, OrChain(p2, << KGender, KStudentGender >>))
  IN  PropSet(p3, KDistrict,
              OrNull(OrChain(p3, << KAddrDistrict, KDistrict, KIsInDistrict >>)))

RECURSIVE SchoolElementSeqs(_)
SchoolElementSeqs(n) ==
  IF n = 0 THEN { << >> }
  ELSE LET shorter == SchoolElementSeqs(n - 1)
       IN  shorter \cup { Append(s, SchoolElementList[i]) :
                            s \in { t \in shorter : Len(t) = n - 1 },
                            i \in 1..Len(SchoolElementList) }

\* The loop of fetchOverpass over json.elements
RECURSIVE OverpassFeatures(_)
OverpassFeatures(elements) ==
  IF elements = << >> THEN << >>
  ELSE LET el == Head(elements)
           pos == IF el.type = "node" /\ TypeofNumber(el.lon) /\ TypeofNumber(el.lat)
                  THEN << el.lon, el.lat >>
                  ELSE IF /\ el.center.present
                          /\ TypeofNumber(el.center.lon) /\ TypeofNumber(el.center.lat)
                  THEN << el.center.lon, el.center.lat >>
                  ELSE << NULL, NULL >>
       IN  (IF pos[1].t = "null" \/ pos[2].t = "null" THEN << >>
            ELSE << SchoolFeature(pos, OverpassProps(el.tags)) >>)
           \o OverpassFeatures(Tail(elements))

\* What fetchText gives for the Overpass request: transport is "error" (the request
\* fails), or "ok" with an HTTP status that is 2xx or not, a body that parses or
\* not, and a json.elements that is an array or not.
OverpassReply(transport, ok, parses, elements) ==
  [transport |-> transport, ok |-> ok, parses |-> parses, elements |-> elements]

OverpassReplies ==
  { OverpassReply("error", FALSE, FALSE, NoList),
    OverpassReply("ok", FALSE, FALSE, NoList),
    OverpassReply("ok", TRUE, FALSE, NoList),
    OverpassReply("ok", TRUE, TRUE, NoList) }
  \cup { OverpassReply("ok", TRUE, TRUE, List(s)) : s \in SchoolElementSeqs(MaxElements) }

\* fetchText: throws on a failed request and on a status that is not 2xx
FetchTextThrows(reply) == reply.transport = "error" \/ ~reply.ok

\* fetchOverpass once fetchText has settled
fetchOverpass(reply) ==
  IF FetchTextThrows(reply) THEN Outcome(TRUE, << >>)
  ELSE IF ~reply.parses \/ ~reply.elements.isArray THEN Outcome(TRUE, << >>)
  ELSE Outcome(FALSE, OverpassFeatures(reply.elements.items))

(***************************************************************************)
(* main of the schools build                                               *)
(***************************************************************************)
SchoolsFile(state, source, features) ==
  [state |-> state, source |-> source, features |-> features]

NoReply == OverpassReply("none", FALSE, FALSE, NoList)

\* 'https://overpass-api.de/api/interpreter', the second entry of the list of the
\* fiber ETL
SchoolsDefaultEndpoint == 2
\* an endpoint outside the built-in list
CustomEndpoint == NumOverpassEndpoints + 1

\* const endpoint = process.env.OVERPASS_URL || 'https://overpass-api.de/api/interpreter'
SchoolsEndpoint(env) == IF env # 0 THEN env ELSE SchoolsDefaultEndpoint

\* A variant that writes the default tag of main instead of result.source.
SchoolsWriteDefaultTag(source, features) ==
  /\ schoolsFile' = SchoolsFile("written", "official", features)
  /\ spc' = "done"
  /\ exitCode' = exitCode

\* The output is written: fs.writeFileSync(OUTPUT_PATH, ...), then main ends.
SchoolsWrite(source, features) ==
  /\ schoolsFile' = SchoolsFile("written", source, features)
  /\ spc' = "done"
  /\ exitCode' = exitCode

\* A variant of the outer catch that leaves an empty collection behind.
SchoolsFailWritesEmpty ==
  /\ spc' = "failed"
  /\ exitCode' = 1
  /\ schoolsFile' = SchoolsFile("written", "none", << >>)

\* The outer catch of main: the error is logged and process.exitCode = 1.
SchoolsFail ==
  /\ spc' = "failed"
  /\ exitCode' = 1
  /\ schoolsFile' = schoolsFile

\* tryLoadOfficialDataset has given r (or thrown, which main catches): the result is
\* written, or fetchOverpass sends its request.
AfterOfficial(r, tried) ==
  IF HasCollection(r)
  THEN /\ SchoolsWrite(r.source, r.features)
       /\ sourcing' = tried
       /\ overpassRequest' = overpassRequest
  ELSE /\ spc' = "overpassFetch"
       /\ sourcing' = Append(tried, "overpass")
       /\ overpassRequest' = SchoolsEndpoint(overpassUrl)
       /\ UNCHANGED << schoolsFile, exitCode >>

\* main up to its first pending request: regions.json is read, then
\* tryLoadOfficialDataset runs on the local file or asks for the URL.
SchoolsMainStart ==
  /\ run = "schools"
  /\ spc = "start"
  /\ IF regions = "invalid"
     THEN SchoolsFail /\ sourcing' = sourcing /\ overpassRequest' = overpassRequest
     ELSE LET ext == tryReadLocalOfficialDataset(localFiles)
          IN  IF ext # "none"
              THEN AfterOfficial(LoadLocal(ext, localDoc), << "local" >>)
              ELSE IF ~url
              THEN AfterOfficial(LoadedNull, << >>)
              ELSE /\ spc' = "remoteFetch"
                   /\ sourcing' = << "remote" >>
                   /\ UNCHANGED << schoolsFile, overpassRequest, exitCode >>
  /\ UNCHANGED << run, overpassUrl, notSchools, schoolsEnv, remoteDoc, lastReply >>

\* fetchText(url) throws: tryLoadOfficialDataset rejects and main catches it.
SchoolsRemoteFails ==
  /\ spc = "remoteFetch"
  /\ AfterOfficial(LoadThrows, sourcing)
  /\ UNCHANGED << run, overpassUrl, notSchools, schoolsEnv, remoteDoc, lastReply >>

\* fetchText(url) gives the text of a document.
SchoolsRemoteSettles ==
  /\ spc = "remoteFetch"
  /\ \E i \in 1..Len(OfficialDocs) :
       /\ remoteDoc' = OfficialDocs[i]
       /\ AfterOfficial(LoadRemote(OfficialDocs[i]), sourcing)
  /\ UNCHANGED << run, overpassUrl, notSchools, schoolsEnv, lastReply >>

\* The Overpass request of fetchOverpass settles.
SchoolsOverpassSettles ==
  /\ spc = "overpassFetch"
  /\ \E reply \in OverpassReplies :
       LET fc == fetchOverpass(reply)
       IN  /\ lastReply' = reply
           /\ IF fc.throws THEN SchoolsFail
              ELSE SchoolsWrite("overpass", enrichFeatureCollection(fc.features))
  /\ UNCHANGED << run, overpassUrl, notSchools, schoolsEnv, sourcing, remoteDoc, overpassRequest >>

(***************************************************************************)
(* Functions applied on their own: the argument is drawn in the initial    *)
(* state and one action applies the function to it.                        *)
(***************************************************************************)
NoValue == [none |-> TRUE]

\* The positions of the geometries: numeric pairs and a pair of strings.
PositionList == << P(0, 0), P(60, 60), P(120, 0), << STR, STR >> >>

\* the lists of at most n positions
RECURSIVE PositionSeqs(_)
PositionSeqs(n) ==
  IF n = 0 THEN { << >> }
  ELSE LET shorter == PositionSeqs(n - 1)
       IN  shorter \cup { Append(s, PositionList[i]) :
                            s \in { t \in shorter : Len(t) = n - 1 },
                            i \in 1..Len(PositionList) }

\* geometries whose coordinates are a list of positions
FlatGeometries ==
  { Geometry(type, l) : type \in { "MultiPoint", "LineString" },
                        l \in PositionSeqs(MaxPositions) }

\* geometries whose coordinates are a list of lists of positions
NestedGeometries ==
  { Geometry(type, ls) :
      type \in { "MultiLineString", "Polygon" },
      ls \in { << l >> : l \in PositionSeqs(MaxPositions - 1) }
             \cup { << l1, l2 >> : l1 \in PositionSeqs(1), l2 \in PositionSeqs(MaxPositions - 1) } }

\* MultiPolygons: one or two polygons of one ring
DeepGeometries ==
  { Geometry("MultiPolygon", << << l >> >>) : l \in PositionSeqs(MaxPositions - 1) }
  \cup { Geometry("MultiPolygon", << << l1 >>, << l2 >> >>) :
           l1 \in PositionSeqs(1), l2 \in PositionSeqs(MaxPositions - 1) }

\* coerceToPoints on a collection of one feature with geometry arg
ApplyCoerceToPoints ==
  /\ run = "apply"
  /\ fn = "coerceToPoints"
  /\ apc = "ready"
  /\ res' = coerceToPoints(<< OFeature(arg, << >>) >>)
  /\ apc' = "applied"
  /\ UNCHANGED << run, overpassUrl, notApply, fn, arg >>

\* The vertices of the ways: objects with lon/lat, one without them, and null.
VertexList == << Vertex(Num(30), Num(1)), Vertex(Num(31), Num(2)), Vertex(UNDEF, UNDEF),
                 NullVertex >>

\* the lists of at most n vertices
RECURSIVE VertexSeqs(_)
VertexSeqs(n) ==
  IF n = 0 THEN { << >> }
  ELSE LET shorter == VertexSeqs(n - 1)
       IN  shorter \cup { Append(s, VertexList[i]) :
                            s \in { t \in shorter : Len(t) = n - 1 },
                            i \in 1..Len(VertexList) }

\* The members of the relations: ways with geometry, a way without, a node, and a
\* way with a null vertex.
MemberList ==
  << Member("way", List(<< Vertex(Num(30), Num(1)), Vertex(Num(31), Num(2)) >>)),
     Member("way", List(<< Vertex(Num(31), Num(2)) >>)),
     Member("way", NoList),
     Member("node", NoList),
     Member("way", List(<< NullVertex >>)) >>

\* the lists of at most n members
RECURSIVE MemberSeqs(_)
MemberSeqs(n) ==
  IF n = 0 THEN { << >> }
  ELSE LET shorter == MemberSeqs(n - 1)
       IN  shorter \cup { Append(s, MemberList[i]) :
                            s \in { t \in shorter : Len(t) = n - 1 },
                            i \in 1..Len(MemberList) }

WayElements ==
  { Element("way", 7, UNDEF, UNDEF, List(vs), NoList) : vs \in VertexSeqs(MaxVertices) }
  \cup { Element("way", 7, UNDEF, UNDEF, NoList, NoList) }

RelationElements ==
  { Element("relation", 8, UNDEF, UNDEF, NoList, List(ms)) : ms \in MemberSeqs(MaxMembers) }
  \cup { Element("relation", 8, UNDEF, UNDEF, NoList, NoList) }

\* elementToGeoJSONFeature(arg): the feature, or the TypeError it throws
TelecomValues ==
  { << >>, << "e", "x", "c", "h", "a", "n", "g", "e" >>, << "E", "x", "c", "h", "a", "n", "g", "e" >>, << "d", "a", "t", "a", "_", "c", "e", "n", "t", "e", "r" >>, << "y", "e", "s" >> }

\* Nodes with every combination of the tags the classification of a node reads, with
\* and without coordinates.
NodeElements ==
  { WithTags(n, Tags(t, m, u, << >>, << >>, << >>, << >>)) :
      n \in { GoodNode, BareNode }, t \in TelecomValues,
      m \in { << >>, STREET_CABINET, UTILITY_POLE }, u \in { << >>, TELECOM } }

\* Ways with the tags of a fibre line
LineElements ==
  { WithTags(GoodWay, Tags(<< >>, << >>, << >>, c, cm, l, lm)) :
      c \in { << >>, TELECOM }, cm \in { << >>, << "F", "i", "b", "r", "e" >> },
      l \in { << >>, << "l", "i", "n", "e" >> }, lm \in { << >>, << "f", "i", "b", "e", "r", "_", "o", "p", "t", "i", "c" >>, << "c", "o", "p", "p", "e", "r" >> } }

ApplyElementToFeature ==
  /\ run = "apply"
  /\ fn = "elementToGeoJSONFeature"
  /\ apc = "ready"
  /\ res' = IF ElementThrows(arg)
            THEN [throws |-> TRUE, feature |-> NoValue]
            ELSE [throws |-> FALSE, feature |-> elementToGeoJSONFeature(arg)]
  /\ apc' = "applied"
  /\ UNCHANGED << run, overpassUrl, notApply, fn, arg >>

\* District names as the sources spell them.
DistrictNames ==
  << << "K", "a", "m", "p", "a", "l", "a", " ", "D", "i", "s", "t", "r", "i", "c", "t" >>,
     << " ", " ", "k", "a", "m", "p", "a", "l", "a", " " >>,
     << "K", "A", "M", "P", "A", "L", "A" >>,
     << "K", "a", "m", "p", "a", "l", "a", ",", " ", "d", "i", "s", "t", "r", "i", "c", "t", "." >>,
     << "F", "o", "r", "t", " ", "P", "o", "r", "t", "a", "l" >>,
     << "f", "o", "r", "t", " ", " ", "p", "o", "r", "t", "a", "l" >>,
     << "F", "o", "r", "t", " ", "-", " ", "P", "o", "r", "t", "a", "l" >>,
     << "F", "o", "r", "t", "-", "P", "o", "r", "t", "a", "l" >>,
     << "F", "o", "r", "t", "P", "o", "r", "t", "a", "l" >>,
     << "G", "u", "l", "u" >>,
     << >> >>

\* normalizeDistrictName and the region lookup on the two names of arg
ApplyNormalizeDistrictName ==
  /\ run = "apply"
  /\ fn = "normalizeDistrictName"
  /\ apc = "ready"
  /\ res' = [a |-> normalizeDistrictName(arg.a),
             b |-> normalizeDistrictName(arg.b),
             regionA |-> RegionOf(buildDistrictToRegionMap(RegionsTable), arg.a),
             regionB |-> RegionOf(buildDistrictToRegionMap(RegionsTable), arg.b)]
  /\ apc' = "applied"
  /\ UNCHANGED << run, overpassUrl, notApply, fn, arg >>

\* upstream values of a property: absent, null, empty and other texts, 0 and []
UpstreamValues ==
  { PUndefined, PNull, PStr(<< >>), PVal("number", << "0" >>), PVal("array", << >>),
    PStr(<< "G", "o", "v", "e", "r", "n", "m", "e", "n", "t", " ", "A", "i", "d", "e", "d" >>),
    PStr(<< "F", "e", "m", "a", "l", "e" >>),
    PStr(<< "C", "o", "-", "e", "d" >>),
    PStr(<< "C", "o", "m", "m", "u", "n", "i", "t", "y" >>) }

OwnershipKeys == << KOwnership, KOperatorTypeTag, KOperatorType, KOperatorTypeCamel, KManagement >>
GenderKeys == << KGender, KGenderOfStudents, KSex >>

\* props with one ownership-like and one gender-like key
EnrichInputs ==
  { << Prop(OwnershipKeys[i], v), Prop(GenderKeys[j], w) >> :
      i \in 1..Len(OwnershipKeys), j \in 1..Len(GenderKeys), v \in UpstreamValues, w \in UpstreamValues }

\* the line "a,b""c" with its quotes
QuotedExampleLine == << "\"", "a", ",", "b", "\"", "\"", "c", "\"" >>

\* the lines of at most n characters over a letter, the two delimiters and the quote
RECURSIVE LinesUpTo(_)
LinesUpTo(n) ==
  IF n = 0 THEN { << >> }
  ELSE LET shorter == LinesUpTo(n - 1)
       IN  shorter \cup { Append(l, c) : l \in shorter, c \in { "a", ",", ";", "\"" } }

SplitInputs ==
  { [line |-> l, delimiter |-> d] :
      l \in LinesUpTo(MaxLineLen) \cup { QuotedExampleLine }, d \in { ",", ";" } }

ApplySplitLine ==
  /\ run = "apply"
  /\ fn = "splitLine"
  /\ apc = "ready"
  /\ res' = splitLine(arg.line, arg.delimiter)
  /\ apc' = "applied"
  /\ UNCHANGED << run, overpassUrl, notApply, fn, arg >>

RegionKeys == << KRegion, KAdm1Name, KProvince >>
DistrictKeys == << KDistrict, KAddrDistrict, KIsInDistrict, KAdmin2, KAdm2Name, KSubcounty >>

RegionValues == { PUndefined, PNull, PStr(<< >>), PStr(<< "E", "a", "s", "t", "e", "r", "n" >>) }
DistrictValues ==
  { PUndefined, PStr(<< >>),
    PStr(<< "K", "a", "m", "p", "a", "l", "a", " ", "D", "i", "s", "t", "r", "i", "c", "t" >>),
    PStr(<< " ", " ", "g", "u", "l", "u", " " >>),
    PStr(<< "F", "o", "r", "t", " ", "-", " ", "P", "o", "r", "t", "a", "l" >>),
    PStr(<< "M", "a", "s", "a", "k", "a" >>) }

\* props with one region-like and one district-like key, and props with two region-like
\* keys and a district
RegionInputs ==
  { << Prop(RegionKeys[i], v), Prop(DistrictKeys[j], d) >> :
      i \in 1..Len(RegionKeys), j \in 1..Len(DistrictKeys), v \in RegionValues,
      d \in DistrictValues }
  \cup { << Prop(KProvince, PStr(<< "B", "u", "g", "a", "n", "d", "a" >>)), Prop(KRegion, v),
            Prop(KDistrict, PStr(<< "K", "a", "m", "p", "a", "l", "a" >>)) >> : v \in RegionValues }

ApplyEnrichProperties ==
  /\ run = "apply"
  /\ fn = "enrichProperties"
  /\ apc = "ready"
  /\ res' = enrichProperties(arg, buildDistrictToRegionMap(RegionsTable))
  /\ apc' = "applied"
  /\ UNCHANGED << run, overpassUrl, notApply, fn, arg >>

ApplyInit ==
  /\ apc = "ready"
  /\ res = NoValue
  /\ \/ /\ fn = "coerceToPoints"
        /\ \/ arg \in FlatGeometries
           \/ arg \in NestedGeometries
           \/ arg \in DeepGeometries
           \/ arg \in { Geometry("Point", P(60, 60)) }
           \/ arg \in { Geometry("GeometryCollection", << >>), Geometry("none", << >>) }
     \/ /\ fn = "normalizeDistrictName"
        /\ \E i \in 1..Len(DistrictNames), j \in 1..Len(DistrictNames) :
             arg = [a |-> DistrictNames[i], b |-> DistrictNames[j]]
     \/ /\ fn = "elementToGeoJSONFeature"
        /\ \/ arg \in WayElements \cup RelationElements \cup { GoodNode, BareNode }
           \/ arg \in NodeElements \cup LineElements
     \/ /\ fn = "splitLine"
        /\ arg \in SplitInputs
     \/ /\ fn = "enrichProperties"
        /\ arg \in EnrichInputs \cup RegionInputs

ApplyIdle ==
  /\ fn = "none"
  /\ arg = NoValue
  /\ apc = "idle"
  /\ res = NoValue

(***************************************************************************)
(* lib/mapConfig.ts: getSchoolsData and prefetchSchoolsData share the      *)
(* module variable schoolsPromise.  A promise is named by its place in     *)
(* promises; the chain fetch.then.then.catch settles in one step when the  *)
(* request does.                                                           *)
(***************************************************************************)
\* calls of getSchoolsData, and requests prefetchSchoolsData may issue
MaxCalls == 3

Promise(by, state, value) == [by |-> by, state |-> state, value |-> value]

\* .catch(() => { schoolsPromise = null; return null as any; })
prefetchCatch(outcome) == Promise("prefetch", "fulfilled", "null")

\* what the chain of a promise gives when its request settles with outcome: "ok",
\* "httpError" (r.ok is false), "networkError" (fetch rejects) or "badJson" (r.json()
\* rejects)
Settled(by, outcome) ==
  IF outcome = "ok" THEN Promise(by, "fulfilled", "collection")
  ELSE IF by = "get" THEN Promise("get", "rejected", "error")
  ELSE prefetchCatch(outcome)

\* the requests for /data/schools.geojson that are in flight
InFlight == { i \in 1..Len(promises) : promises[i].state = "pending" }

\* A variant of the guard that does not reuse a pending promise.
ReusesPromiseNever(p) == FALSE

\* if (schoolsPromise) return
ReusesPromise(p) == p # 0

\* schoolsPromise = fetch('/data/schools.geojson').then(...).then(...).catch(...)
StartFetch(by) ==
  /\ promises' = Append(promises, Promise(by, "pending", "none"))
  /\ schoolsPromise' = Len(promises) + 1

getSchoolsData ==
  /\ run = "data"
  /\ Len(handed) < MaxCalls
  /\ IF ReusesPromise(schoolsPromise)
     THEN /\ handed' = Append(handed, schoolsPromise)
          /\ UNCHANGED << schoolsPromise, promises >>
     ELSE /\ StartFetch("get")
          /\ handed' = Append(handed, Len(promises) + 1)
  /\ UNCHANGED << run, overpassUrl, notData >>

prefetchSchoolsData ==
  /\ run = "data"
  /\ Len(promises) < MaxCalls
  /\ IF ReusesPromise(schoolsPromise)
     THEN UNCHANGED << schoolsPromise, promises >>
     ELSE StartFetch("prefetch")
  /\ UNCHANGED << run, overpassUrl, notData, handed >>

\* The request of promise i settles; a failure runs the catch handler, which sets
\* schoolsPromise = null.
DataFetchSettles ==
  /\ run = "data"
  /\ \E i \in InFlight, outcome \in { "ok", "httpError", "networkError", "badJson" } :
       /\ promises' = [promises EXCEPT ![i] = Settled(promises[i].by, outcome)]
       /\ schoolsPromise' = IF outcome = "ok" THEN schoolsPromise ELSE 0
  /\ UNCHANGED << run, overpassUrl, notData, handed >>

DataInit ==
  /\ schoolsPromise = 0
  /\ promises = << >>
  /\ handed = << >>

(***************************************************************************)
(* components/Map.tsx: the effect that creates the map runs once, at       *)
(* mount, so its load handler and the handler of the schools request read  *)
(* fiberVisible and schoolsVisible of the first render.                    *)
(***************************************************************************)
LAYER_IDS == << "fiber-lines", "schools-clusters", "schools-cluster-count", "schools-unclustered" >>
SchoolLayers == { "schools-clusters", "schools-cluster-count", "schools-unclustered" }

\* useState<boolean>(true) for fiberVisible and for schoolsVisible
InitialVisible == TRUE
\* fiberVisible and schoolsVisible as the closures of the mount effect see them
CapturedFiberVisible == InitialVisible
CapturedSchoolsVisible == InitialVisible

\* visible ? "visible" : "none"
Visibility(visible) == IF visible THEN "visible" ELSE "none"

\* setLayerVisibility(layerId, visible) on the layers ls: nothing without a map or
\* without the layer
setLayerVisibility(ls, layerId, visible) ==
  IF mapPc \notin { "created", "loaded" } THEN ls
  ELSE IF ls[layerId] = "absent" THEN ls
  ELSE [ls EXCEPT ![layerId] = Visibility(visible)]

\* The mount effect: new maplibregl.Map(...), map.once("load", ...), mapRef.current = map
MapMount ==
  /\ run = "component"
  /\ mapPc = "none"
  /\ mapPc' = "created"
  /\ UNCHANGED << run, overpassUrl, notComp, fiberVisible, schoolsVisible, mapFetch, layers >>

\* The load handler: the fiber layer is added and the schools request is sent.
MapLoad ==
  /\ mapPc = "created"
  /\ mapPc' = "loaded"
  /\ layers' = [layers EXCEPT !["fiber-lines"] = Visibility(CapturedFiberVisible)]
  /\ mapFetch' = "pending"
  /\ UNCHANGED << run, overpassUrl, notComp, fiberVisible, schoolsVisible >>

\* fetch("/data/schools.geojson").then(r => r.json()) gives the collection: the source
\* and the three school layers are added; on a removed map addSource throws and the
\* catch handler logs.
MapFetchResolves ==
  /\ mapFetch = "pending"
  /\ IF mapPc = "loaded"
     THEN /\ mapFetch' = "resolved"
          /\ layers' = [l \in DOMAIN layers |->
                          IF l \in SchoolLayers THEN Visibility(CapturedSchoolsVisible)
                          ELSE layers[l]]
     ELSE /\ mapFetch' = "failed"
          /\ layers' = layers
  /\ UNCHANGED << run, overpassUrl, notComp, fiberVisible, schoolsVisible, mapPc >>

\* The request or r.json() rejects: the catch handler logs the error.
MapFetchFails ==
  /\ mapFetch = "pending"
  /\ mapFetch' = "failed"
  /\ UNCHANGED << run, overpassUrl, notComp, fiberVisible, schoolsVisible, mapPc, layers >>

\* onChange of the Fiber checkbox: e.target.checked is the negation of the state shown
onToggleFiber ==
  /\ mapPc \in { "created", "loaded" }
  /\ fiberVisible' = ~fiberVisible
  /\ layers' = setLayerVisibility(layers, "fiber-lines", ~fiberVisible)
  /\ UNCHANGED << run, overpassUrl, notComp, schoolsVisible, mapPc, mapFetch >>

onToggleSchools ==
  /\ mapPc \in { "created", "loaded" }
  /\ schoolsVisible' = ~schoolsVisible
  /\ layers' = setLayerVisibility(
                  setLayerVisibility(
                    setLayerVisibility(layers, "schools-clusters", ~schoolsVisible),
                    "schools-cluster-count", ~schoolsVisible),
                  "schools-unclustered", ~schoolsVisible)
  /\ UNCHANGED << run, overpassUrl, notComp, fiberVisible, mapPc, mapFetch >>

\* The cleanup of the mount effect: map.remove(), mapRef.current = null
MapUnmount ==
  /\ mapPc \in { "created", "loaded" }
  /\ mapPc' = "removed"
  /\ layers' = [l \in DOMAIN layers |-> "absent"]
  /\ UNCHANGED << run, overpassUrl, notComp, fiberVisible, schoolsVisible, mapFetch >>

CompInit ==
  /\ fiberVisible = InitialVisible
  /\ schoolsVisible = InitialVisible
  /\ mapPc = "none"
  /\ mapFetch = "none"
  /\ layers = [l \in { LAYER_IDS[i] : i \in 1..Len(LAYER_IDS) } |-> "absent"]

(***************************************************************************)
(* The specification                                                       *)
(***************************************************************************)
RetryInit ==
  /\ endpoints = << >>
  /\ maxAttempts = 0
  /\ baseDelayMs = 0
  /\ attempt = 0
  /\ rpc = "idle"
  /\ requests = << >>
  /\ lastResponse = NoResponse
  /\ lastError = NoError
  /\ returned = NoJson
  /\ thrown = NoError
  /\ delay = -1
  /\ lastLog = NoLog
  /\ warnCount = 0

\* fiber.geojson is absent or left by an earlier run
FiberInit ==
  /\ mpc = "start"
  /\ rawFiles = 0
  /\ rawPath = NoPath
  /\ fiberMeta = NoMeta
  /\ fiberFile \in IF run = "fiber" THEN { File("absent", << >>), File("stale", << >>) }
                   ELSE { File("absent", << >>) }

\* The files under data/ and the environment of a schools build; schools.geojson is
\* absent or left by an earlier run.
SchoolsInit ==
  /\ IF run = "schools"
     THEN /\ localFiles \in SUBSET { "geojson", "json", "csv" }
          /\ \E i \in 1..Len(OfficialDocs) :
               localDoc = IF localFiles = { } THEN NoDoc ELSE OfficialDocs[i]
          /\ url \in BOOLEAN
          /\ regions \in { "absent", "valid", "invalid" }
     ELSE /\ localFiles = { }
          /\ localDoc = NoDoc
          /\ url = FALSE
          /\ regions = "absent"
  /\ spc = "start"
  /\ sourcing = << >>
  /\ remoteDoc = NoDoc
  /\ lastReply = NoReply
  /\ overpassRequest = 0
  /\ schoolsFile \in IF run = "schools"
                     THEN { SchoolsFile("absent", "none", << >>),
                            SchoolsFile("stale", "official-local", << >>) }
                     ELSE { SchoolsFile("absent", "none", << >>) }

CsvIdle ==
  /\ csvText = << >>
  /\ csvPc = "idle"
  /\ csvDelimiter = ","
  /\ csvRows = << >>
  /\ csvOut = Outcome(FALSE, << >>)

\* OVERPASS_URL is unset, names the first built-in endpoint, or names another one
EnvInit ==
  overpassUrl \in IF run \in { "fiber", "schools" } THEN { 0, 1, CustomEndpoint } ELSE { 0 }

Init ==
  /\ run \in { "retryCall", "fiber", "schools", "apply", "data", "component" }
  /\ EnvInit
  /\ RetryInit
  /\ FiberInit
  /\ exitCode = 0
  /\ SchoolsInit
  /\ CsvIdle
  /\ IF run = "apply" THEN ApplyInit ELSE ApplyIdle
  /\ DataInit
  /\ CompInit

Next ==
  \/ RetryCall
  \/ FetchSettles
  \/ SleepEnds
  \/ FiberMainStart
  \/ FiberMainCache
  \/ FiberMainWrite
  \/ FiberMainFail
  \/ SchoolsMainStart
  \/ SchoolsRemoteFails
  \/ SchoolsRemoteSettles
  \/ SchoolsOverpassSettles
  \/ ApplyCoerceToPoints
  \/ ApplyElementToFeature
  \/ ApplyNormalizeDistrictName
  \/ ApplyEnrichProperties
  \/ ApplySplitLine
  \/ getSchoolsData
  \/ prefetchSchoolsData
  \/ DataFetchSettles
  \/ MapMount
  \/ MapLoad
  \/ MapFetchResolves
  \/ MapFetchFails
  \/ onToggleFiber
  \/ onToggleSchools
  \/ MapUnmount

Spec == Init /\ [][Next]_vars

(***************************************************************************)
(* The CSV functions on their own: parseCSV and rowsToGeoJSON applied to   *)
(* the texts of small tables with a y/x header.                            *)
(***************************************************************************)
CsvCells == { << >>, << "1" >>, << "a" >>, << "-", "2" >> }

\* a data line: two cells around the delimiter, or one cell alone
CsvDataLines(d) ==
  { c1 \o << d >> \o c2 : c1 \in CsvCells, c2 \in CsvCells } \cup CsvCells

\* the texts with a header line and exactly n data lines
RECURSIVE CsvTextsOf(_, _)
CsvTextsOf(d, n) ==
  IF n = 0 THEN { << "y", d, "x" >> }
  ELSE { t \o << "\n" >> \o l : t \in CsvTextsOf(d, n - 1), l \in CsvDataLines(d) }

CsvTexts ==
  UNION { CsvTextsOf(d, n) : d \in { ",", ";", "\t" }, n \in 0..MaxRows }

\* sample = lines.slice(0, 5).join('\n'); detectCSVDelimiter(sample)
CsvDetect ==
  /\ csvPc = "input"
  /\ csvDelimiter' =
       detectCSVDelimiter(SampleOf(SkipLeadingBlank(SplitOn(NormalizeNewlines(csvText), "\n"))))
  /\ csvPc' = "detected"
  /\ UNCHANGED << run, overpassUrl, notCsv, csvText, csvRows, csvOut >>

\* rowsToGeoJSON(parseCSV(text))
CsvParse ==
  /\ csvPc = "detected"
  /\ csvRows' = parseCSV(csvText)
  /\ csvOut' = rowsToGeoJSON(parseCSV(csvText))
  /\ csvPc' = "parsed"
  /\ UNCHANGED << run, overpassUrl, notCsv, csvText, csvDelimiter >>

InitCsv ==
  /\ run = "csv"
  /\ EnvInit
  /\ RetryInit
  /\ FiberInit
  /\ exitCode = 0
  /\ SchoolsInit
  /\ csvText \in CsvTexts
  /\ csvPc = "input"
  /\ csvDelimiter = ","
  /\ csvRows = << >>
  /\ csvOut = Outcome(FALSE, << >>)
  /\ ApplyIdle
  /\ DataInit
  /\ CompInit

NextCsv ==
  \/ CsvDetect
  \/ CsvParse

SpecCsv == InitCsv /\ [][NextCsv]_vars

(***************************************************************************)
(* The claims.                                                             *)
(***************************************************************************)

\* C1: attempt i of postJSONWithRetry (1-based) is issued against
\* endpoints[(i-1) mod N], one request per attempt; with 3 endpoints attempt 4
\* goes to the endpoint of attempt 1.
C1_RotationByAttempt ==
  /\ \A i \in 1..Len(requests) : requests[i] = endpoints[((i - 1) % Len(endpoints)) + 1]
  /\ rpc \in { "fetch", "sleep", "returned" } => Len(requests) = attempt

C1_WrapWitness ==
  /\ Len(endpoints) = 3
  /\ Len(requests) >= 4
  /\ requests[4] = requests[1]
  /\ requests[2] # requests[1]

\* C2: when every attempt fails postJSONWithRetry issues exactly maxAttempts
\* requests, never more, then rejects with the error of the last failed attempt and
\* returns no payload.
C2_ExactlyMaxAttemptsThenReject ==
  /\ Len(requests) <= maxAttempts
  /\ rpc = "thrown" =>
       /\ Len(requests) = maxAttempts
       /\ returned = NoJson
       /\ maxAttempts >= 1 =>
            /\ thrown = lastError
            /\ thrown.attempt = maxAttempts
            /\ thrown.kind \in { "transport", "http", "parse", "remark" }

C2_ExhaustedWitness ==
  /\ rpc = "thrown"
  /\ maxAttempts = MainMaxAttempts
  /\ Len(requests) = MainMaxAttempts
  /\ thrown.kind = "transport"

\* C3 (as claimed): a sourcing state that fails is followed by the next state in the
\* order local, remote, Overpass: with the remote URL configured, Overpass is queried
\* only after the remote URL was tried.
C3_FailedStateAdvancesToNext ==
  (url /\ InSeq("overpass", sourcing)) => InSeq("remote", sourcing)

\* C4 (as claimed): an official source ends the search only with a non-empty
\* collection: an output tagged with an official source holds at least one feature.
C4_OfficialOutputNonEmpty ==
  (schoolsFile.state = "written"
     /\ schoolsFile.source \in { "official-local", "official-remote", "official-remote-csv" })
  => schoolsFile.features # << >>

\* the coordinate leaves, as JSON.stringify writes them, are all numbers
PairNumeric(c) == \A i \in 1..Len(c) : TypeofNumber(StringifyLeaf(c[i]))
LineNumeric(l) == \A i \in 1..Len(l) : PairNumeric(l[i])
LeavesNumeric(g) ==
  IF g.type = "Point" THEN PairNumeric(g.coordinates)
  ELSE IF g.type = "LineString" THEN LineNumeric(g.coordinates)
  ELSE IF g.type = "MultiLineString"
       THEN \A i \in 1..Len(g.coordinates) : LineNumeric(g.coordinates[i])
  ELSE FALSE

\* C5 (as claimed): every feature of either output file has a geometry whose
\* coordinate leaves are all numbers, and a record that would break this is dropped
\* without aborting the run.
C5_EmittedCoordinatesNumeric ==
  /\ fiberFile.state = "written" =>
       \A i \in 1..Len(fiberFile.features) : LeavesNumeric(fiberFile.features[i].geometry)
  /\ schoolsFile.state = "written" =>
       \A i \in 1..Len(schoolsFile.features) : LeavesNumeric(schoolsFile.features[i].geometry)
  /\ (run = "fiber" /\ rpc = "returned" /\ returned.elements.isArray) => mpc # "exited"

\* a cell that holds a number: digits, with an optional minus sign, inside white space
IsNumericText(s) ==
  LET t == Trim(s)
  IN  AllDigits(t) \/ (t # << >> /\ Head(t) = "-" /\ AllDigits(Tail(t)))

NumericValue(s) ==
  LET t == Trim(s)
  IN  IF Head(t) = "-" THEN 0 - DigitsValue(Tail(t)) ELSE DigitsValue(t)

\* one Point [lon, lat] for every row whose y and x cells both hold a number
RECURSIVE ExpectedRowFeatures(_)
ExpectedRowFeatures(rows) ==
  IF rows = << >> THEN << >>
  ELSE LET lat == ObjGet(Head(rows), << "y" >>)
           lon == ObjGet(Head(rows), << "x" >>)
       IN  (IF lat.defined /\ lon.defined /\ IsNumericText(lat.s) /\ IsNumericText(lon.s)
            THEN << PointFeature(Num(NumericValue(lon.s)), Num(NumericValue(lat.s))) >>
            ELSE << >>)
           \o ExpectedRowFeatures(Tail(rows))

\* C6 (as claimed): rowsToGeoJSON gives no feature for a row whose latitude or
\* longitude cell is missing, empty or not a number, and exactly one Point [lon, lat]
\* for every row with two numeric cells.
C6_OnlyNumericRowsYieldFeatures ==
  (csvPc = "parsed" /\ ~csvOut.throws) =>
    [i \in 1..Len(csvOut.features) |-> [geometry |-> csvOut.features[i].geometry]]
      = ExpectedRowFeatures(csvRows)

Occurrences(sample, d) == Cardinality({ i \in 1..Len(sample) : sample[i] = d })

\* the delimiter with the highest count, comma unless another count is higher
MostFrequentDelimiter(sample) ==
  LET commas == Occurrences(sample, ",")
      semis == Occurrences(sample, ";")
      tabs == Occurrences(sample, "\t")
  IN  IF semis > commas /\ semis >= tabs THEN ";"
      ELSE IF tabs > commas /\ tabs > semis THEN "\t"
      ELSE ","

\* C7 (as claimed): detectCSVDelimiter returns the delimiter that occurs most often
\* in the sample, and comma on a tie or when none occurs.
C7_MostFrequentDelimiterDetected ==
  csvPc \in { "detected", "parsed" } =>
    csvDelimiter =
      MostFrequentDelimiter(SampleOf(SkipLeadingBlank(SplitOn(NormalizeNewlines(csvText), "\n"))))

\* C8: on fatal failure (fiber: the retry attempts are exhausted; schools: main
\* fails) the output file is not written in that run and the process ends with a
\* non-zero exit status.
C8_NoOutputOnFatalFailure ==
  /\ (run = "fiber" /\ rpc = "thrown") =>
       /\ fiberFile.state # "written"
       /\ mpc # "done"
       /\ mpc = "exited" => exitCode = 1
  /\ (run = "schools" /\ spc = "failed") =>
       /\ schoolsFile.state # "written"
       /\ exitCode = 1
  /\ (run = "schools" /\ lastReply.transport # "none" /\ fetchOverpass(lastReply).throws) =>
       spc = "failed"

C8_FatalWitness ==
  /\ run = "schools"
  /\ spc = "failed"
  /\ InSeq("overpass", sourcing)
  /\ schoolsFile.state = "stale"
  /\ exitCode = 1

\* the response is one postJSONWithRetry must count as failed
ResponseFails(r) ==
  \/ r.transport = "error"
  \/ ~r.ok
  \/ ~r.parseable
  \/ r.json.jtype = "object" /\ r.json.remark = "text"

\* C9: an attempt whose transport throws, whose status is not 2xx or whose 2xx body
\* carries a truthy remark counts as failed and is never returned; a value is
\* returned only for a 2xx response with a parseable body and no (truthy) remark.
C9_OnlyCleanResponsesReturned ==
  /\ rpc = "returned" =>
       /\ ~ResponseFails(lastResponse)
       /\ returned = lastResponse.json
  /\ (lastResponse.transport # "none" /\ ResponseFails(lastResponse)) =>
       /\ rpc # "returned"
       /\ returned = NoJson
       /\ lastError.kind # "none"
       /\ lastError.attempt = Len(requests) \/ lastError.attempt = Len(requests) - 1

C9_RemarkWitness ==
  /\ lastResponse.transport = "ok"
  /\ lastResponse.ok
  /\ lastResponse.parseable
  /\ lastResponse.json.remark = "text"
  /\ lastError.kind = "remark"
  /\ rpc = "sleep"

\* a transport error: the request fails or the status is not 2xx
TransportError(kind) == kind \in { "transport", "http" }

\* C10 (as claimed): in both pipelines a transport error on an Overpass request is
\* retried; so the schools build fails on one only after a second request.
C10_TransportErrorRetriedInBoth ==
  /\ (run = "fiber" /\ TransportError(lastError.kind) /\ lastError.attempt < maxAttempts) =>
       rpc = "sleep" \/ Len(requests) > lastError.attempt
  /\ (run = "schools" /\ lastReply.transport # "none" /\ FetchTextThrows(lastReply)) =>
       Cardinality({ i \in 1..Len(sourcing) : sourcing[i] = "overpass" }) > 1

\* C10 (amended): the fiber ETL retries a transport error while attempts remain and
\* fails on it only after all maxAttempts requests; the schools build sends its
\* Overpass request once and a transport error on it fails the run at once.
C10_RetriedInFiberOnly ==
  /\ (run = "fiber" /\ TransportError(lastError.kind) /\ lastError.attempt < maxAttempts) =>
       rpc = "sleep" \/ Len(requests) > lastError.attempt
  /\ (run = "fiber" /\ rpc = "thrown") => Len(requests) = MainMaxAttempts
  /\ (run = "fiber" /\ mpc = "exited" /\ rpc # "returned") =>
       (rpc = "thrown" /\ lastError.attempt = MainMaxAttempts)
  /\ Cardinality({ i \in 1..Len(sourcing) : sourcing[i] = "overpass" }) <= 1
  /\ (run = "schools" /\ lastReply.transport # "none" /\ FetchTextThrows(lastReply)) =>
       (spc = "failed" /\ exitCode = 1)

C10_SingleRequestWitness ==
  /\ run = "schools"
  /\ lastReply.transport = "error"
  /\ spc = "failed"
  /\ Cardinality({ i \in 1..Len(sourcing) : sourcing[i] = "overpass" }) = 1

\* C11 (as claimed): every failed attempt of postJSONWithRetry, the last one
\* included, gives one warning line that names the endpoint tried and the delay.
C11_WarningPerFailedAttempt ==
  /\ warnCount = lastError.attempt
  /\ lastError.kind # "none" =>
       /\ lastLog.level = "warn"
       /\ lastLog.endpoint = requests[lastError.attempt]
       /\ lastLog.delay = delay

\* C11 (amended): every failed attempt but attempt number maxAttempts gives one
\* console.warn line naming the attempt, the endpoint that was tried and the computed
\* delay; a failure of attempt number maxAttempts gives a console.error line instead,
\* which names neither the endpoint nor a delay.
C11_WarningUnlessFinalAttempt ==
  /\ warnCount = IF lastError.attempt = maxAttempts /\ lastError.kind # "none"
                 THEN maxAttempts - 1
                 ELSE lastError.attempt
  /\ (lastError.kind # "none" /\ lastError.attempt < maxAttempts) =>
       /\ lastLog = Log("warn", lastError.attempt, requests[lastError.attempt], delay)
       /\ delay >= 0
  /\ (lastError.kind # "none" /\ lastError.attempt = maxAttempts) =>
       lastLog = Log("error", maxAttempts, 0, -1)
  /\ lastError.kind = "none" => lastLog = NoLog

C11_FinalErrorLineWitness ==
  /\ rpc = "thrown"
  /\ maxAttempts = 3
  /\ warnCount = 2
  /\ lastLog.level = "error"

\* C12: the delay slept after failed attempt i of postJSONWithRetry, before attempt
\* i+1, is a whole number of ms within rounding of
\* [0.7 * D * 2^(i-1), 1.3 * D * 2^(i-1)] for base delay D; a sleep happens only
\* when another attempt follows.
C12_DelayWithinJitterBand ==
  rpc = "sleep" =>
    LET nominal == baseDelayMs * Pow2(attempt - 1)
    IN  /\ attempt < maxAttempts
        /\ lastLog.delay = delay
        /\ 10 * delay + 5 >= 7 * nominal
        /\ 10 * delay - 5 <= 13 * nominal

C12_ThirdDelayWitness ==
  /\ rpc = "sleep"
  /\ attempt = 3
  /\ baseDelayMs = DefaultBaseDelayMs
  /\ delay = 2800

\* the source that was tried last
LastTried == IF sourcing = << >> THEN "none" ELSE sourcing[Len(sourcing)]

\* what the local official file gives to tryLoadOfficialDataset
LocalResult == LoadLocal(tryReadLocalOfficialDataset(localFiles), localDoc)

\* C13: meta.source of the written schools output is one of official-local,
\* official-remote, official-remote-csv, overpass, and it names the source whose
\* features were written: overpass exactly when they came from the Overpass
\* fallback, official-local from the local file, official-remote(-csv) from the
\* JSON (CSV) text fetched from the URL.
C13_SourceTagNamesProducer ==
  schoolsFile.state = "written" =>
    /\ schoolsFile.source \in
         { "official-local", "official-remote", "official-remote-csv", "overpass" }
    /\ schoolsFile.source = "overpass" <=> LastTried = "overpass"
    /\ schoolsFile.source = "official-local" <=> LastTried = "local"
    /\ schoolsFile.source \in { "official-remote", "official-remote-csv" }
         <=> LastTried = "remote"
    /\ LastTried = "overpass" =>
         schoolsFile.features = enrichFeatureCollection(fetchOverpass(lastReply).features)
    /\ LastTried = "local" => schoolsFile.features = LocalResult.features
    /\ LastTried = "remote" =>
         /\ schoolsFile.features = LoadRemote(remoteDoc).features
         /\ schoolsFile.source = "official-remote" <=> JsonTruthy(remoteDoc)

C13_RemoteCsvWitness ==
  /\ schoolsFile.state = "written"
  /\ schoolsFile.source = "official-remote-csv"
  /\ schoolsFile.features # << >>

\* the source loaded: it gave a collection, empty or not, and neither failed nor gave
\* nothing
GaveCollection(r) == r.throws = FALSE /\ r.isNull = FALSE

NumericPairs(l) ==
  SelectSeq(l, LAMBDA c : Len(c) >= 2 /\ c[1].t = "number" /\ c[2].t = "number")

RECURSIVE Concat(_)
Concat(ls) == IF ls = << >> THEN << >> ELSE Head(ls) \o Concat(Tail(ls))

\* the numeric pairs found anywhere in the nested coordinates of a geometry
PairsAnywhere(g) ==
  IF g.type \in { "MultiPoint", "LineString" } THEN NumericPairs(g.coordinates)
  ELSE IF g.type \in { "MultiLineString", "Polygon" } THEN NumericPairs(Concat(g.coordinates))
  ELSE NumericPairs(Concat(Concat(g.coordinates)))

RECURSIVE SumAt(_, _)
SumAt(pairs, k) == IF pairs = << >> THEN 0 ELSE Head(pairs)[k].n + SumAt(Tail(pairs), k)

NonPointTypes == { "MultiPoint", "LineString", "MultiLineString", "Polygon", "MultiPolygon" }

\* C15 (as claimed): coerceToPoints gives, for a feature with a non-Point geometry,
\* one Point at the arithmetic mean of all numeric [lon, lat] pairs found in its
\* nested coordinates, and no feature when there is no such pair.
C15_NonPointCollapsesToMean ==
  (run = "apply" /\ fn = "coerceToPoints" /\ apc = "applied" /\ arg.type \in NonPointTypes) =>
    LET pairs == PairsAnywhere(arg)
        n == Len(pairs)
    IN  IF n = 0 THEN res = << >>
        ELSE /\ Len(res) = 1
             /\ res[1].geometry.type = "Point"
             /\ Len(res[1].geometry.coordinates) = 2
             /\ res[1].geometry.coordinates[1].n * n = SumAt(pairs, 1)
             /\ res[1].geometry.coordinates[2].n * n = SumAt(pairs, 2)

\* the [lon, lat] pairs of a vertex list, in its order
PairsOfVertices(vs) == [i \in 1..Len(vs) |-> << vs[i].lon, vs[i].lat >>]

\* the member ways of a relation that carry geometry, in member order
GeometricMembers(ms) == SelectSeq(ms, LAMBDA m : m.type = "way" /\ m.geometry.isArray)

NoNullVertex(vs) == \A i \in 1..Len(vs) : ~vs[i].isNull

\* C16: for a relation with m member ways that carry geometry, elementToGeoJSONFeature
\* gives no feature when m = 0, a LineString with that member's vertex list when
\* m = 1, and a MultiLineString of the m lines in member order when m >= 2; members
\* without geometry change nothing.
C16_RelationGeometryByMemberCount ==
  (run = "apply" /\ fn = "elementToGeoJSONFeature" /\ apc = "applied"
     /\ arg.type = "relation" /\ arg.members.isArray
     /\ \A i \in 1..Len(arg.members.items) : NoNullVertex(arg.members.items[i].geometry.items)) =>
    LET ways == GeometricMembers(arg.members.items)
        m == Len(ways)
        lines == [i \in 1..m |-> PairsOfVertices(ways[i].geometry.items)]
    IN  /\ ~res.throws
        /\ m = 0 => res.feature.none
        /\ m = 1 => /\ ~res.feature.none
                    /\ res.feature.geometry = [type |-> "LineString", coordinates |-> lines[1]]
        /\ m >= 2 => /\ ~res.feature.none
                     /\ res.feature.geometry = [type |-> "MultiLineString", coordinates |-> lines]
                     /\ Len(res.feature.geometry.coordinates) = m

C16_SkippedMemberWitness ==
  /\ run = "apply"
  /\ fn = "elementToGeoJSONFeature"
  /\ apc = "applied"
  /\ arg.type = "relation"
  /\ Len(arg.members.items) = 3
  /\ ~arg.members.items[2].geometry.isArray
  /\ ~res.throws
  /\ res.feature.geometry.type = "MultiLineString"
  /\ Len(res.feature.geometry.coordinates) = 2

\* C17: for a way whose geometry lists K vertices, elementToGeoJSONFeature gives a
\* LineString of exactly K pairs [lon, lat] in input order: no vertex is removed,
\* merged or reordered.
C17_WayKeepsEveryVertex ==
  (run = "apply" /\ fn = "elementToGeoJSONFeature" /\ apc = "applied"
     /\ arg.type = "way" /\ arg.geometry.isArray /\ NoNullVertex(arg.geometry.items)) =>
    /\ ~res.throws
    /\ ~res.feature.none
    /\ res.feature.geometry.type = "LineString"
    /\ Len(res.feature.geometry.coordinates) = Len(arg.geometry.items)
    /\ \A i \in 1..Len(arg.geometry.items) :
         res.feature.geometry.coordinates[i]
           = << arg.geometry.items[i].lon, arg.geometry.items[i].lat >>

C17_RepeatedVertexWitness ==
  /\ run = "apply"
  /\ fn = "elementToGeoJSONFeature"
  /\ apc = "applied"
  /\ arg.type = "way"
  /\ Len(arg.geometry.items) = 3
  /\ arg.geometry.items[1] = arg.geometry.items[2]
  /\ arg.geometry.items[3] = Vertex(Num(30), Num(1))
  /\ arg.geometry.items[1] = Vertex(Num(31), Num(2))
  /\ Len(res.feature.geometry.coordinates) = 3

\* the words of a name: its maximal runs of letters, in lower case
RECURSIVE WordsFrom(_, _, _)
WordsFrom(s, i, cur) ==
  IF i > Len(s) THEN (IF cur = << >> THEN << >> ELSE << cur >>)
  ELSE IF InSeq(LowerChar(s[i]), LowerChars) THEN WordsFrom(s, i + 1, Append(cur, LowerChar(s[i])))
  ELSE (IF cur = << >> THEN << >> ELSE << cur >>) \o WordsFrom(s, i + 1, << >>)

\* two names differ only in case, white space, non-alphabetic characters and the
\* word "district": they have the same words once "district" is left out
NameWords(name) == SelectSeq(WordsFrom(name, 1, << >>), LAMBDA w : w # DistrictWord)

\* C18 (as claimed): two district names that differ only in letter case, white
\* space, punctuation or other non-alphabetic characters and the word "district"
\* get the same key from normalizeDistrictName and so the same region.
C18_EquivalentNamesSameKey ==
  (run = "apply" /\ fn = "normalizeDistrictName" /\ apc = "applied"
     /\ NameWords(arg.a) = NameWords(arg.b)) =>
    /\ res.a = res.b
    /\ res.regionA = res.regionB

\* properties.<key> is a non-empty string
NonEmptyString(props, key) ==
  PropGet(props, key).t = "string" /\ PropGet(props, key).s # << >>

\* no key of the chain holds a truthy value
NoUpstream(props, keys) == \A i \in 1..Len(keys) : ~Truthy(PropGet(props, keys[i]))

\* C19: every feature of the schools output, on every path (local or remote official
\* data, CSV, Overpass), has properties.ownership and properties.gender as non-empty
\* strings; enrichProperties gives "unknown" when no upstream key holds a value.
C19_OwnershipAndGenderAlwaysSet ==
  /\ schoolsFile.state = "written" =>
       \A i \in 1..Len(schoolsFile.features) :
         /\ NonEmptyString(schoolsFile.features[i].properties, KOwnership)
         /\ NonEmptyString(schoolsFile.features[i].properties, KGender)
  /\ (schoolsFile.state = "written" /\ schoolsFile.source = "overpass") =>
       LET upstream == fetchOverpass(lastReply).features
       IN  \A i \in 1..Len(upstream) :
             /\ NoUpstream(upstream[i].properties, OwnershipKeys)
                  => PropGet(schoolsFile.features[i].properties, KOwnership) = PStr(Unknown)
             /\ NoUpstream(upstream[i].properties, GenderKeys)
                  => PropGet(schoolsFile.features[i].properties, KGender) = PStr(Unknown)
  /\ (fn = "enrichProperties" /\ apc = "applied") =>
       /\ NonEmptyString(res, KOwnership)
       /\ NonEmptyString(res, KGender)
       /\ NoUpstream(arg, OwnershipKeys) => PropGet(res, KOwnership) = PStr(Unknown)
       /\ NoUpstream(arg, GenderKeys) => PropGet(res, KGender) = PStr(Unknown)

\* an Overpass feature without any tag is written with ownership and gender "unknown"
C19_UnknownWitness ==
  /\ schoolsFile.state = "written"
  /\ schoolsFile.source = "overpass"
  /\ \E i \in 1..Len(schoolsFile.features) :
       /\ PropGet(schoolsFile.features[i].properties, KOwnership) = PStr(Unknown)
       /\ PropGet(schoolsFile.features[i].properties, KGender) = PStr(Unknown)
\* C20: every feature of the schools output has a geometry of type Point, whatever
\* the geometry type of the source feature; coerceToPoints emits Point features only.
C20_OutputGeometryIsPoint ==
  /\ schoolsFile.state = "written" =>
       \A i \in 1..Len(schoolsFile.features) : schoolsFile.features[i].geometry.type = "Point"
  /\ (fn = "coerceToPoints" /\ apc = "applied") =>
       \A i \in 1..Len(res) : res[i].geometry.type = "Point"

\* a local official file whose features are not all Points, each of them written
C20_CollapsedLocalWitness ==
  /\ schoolsFile.state = "written"
  /\ schoolsFile.source = "official-local"
  /\ localDoc.parses
  /\ schoolsFile.features # << >>
  /\ Len(schoolsFile.features) = Len(localDoc.json.features)
  /\ \E i \in 1..Len(localDoc.json.features) :
       localDoc.json.features[i].geometry.type \in { "LineString", "Polygon" }
\* the elements of a list
Range(l) == { l[i] : i \in 1..Len(l) }

\* C21 (as claimed): metadata.endpoints of the fiber output lists the endpoints the
\* retry loop issued an attempt against in that run, and no endpoint that was never
\* contacted.
C21_MetaEndpointsAreThoseTried ==
  (run = "fiber" /\ fiberFile.state = "written") =>
    Range(fiberMeta.endpoints) = Range(requests)

\* C22 (as claimed): with OVERPASS_URL set, every Overpass request of the fiber ETL and
\* the request of the schools fallback go to that endpoint; with it unset, both use
\* their built-in defaults.
C22_OverpassUrlHonoured ==
  /\ run = "fiber" =>
       \A i \in 1..Len(requests) :
         requests[i] = IF overpassUrl # 0 THEN overpassUrl
                       ELSE EndpointFor(OVERPASS_ENDPOINTS, i)
  /\ (run = "schools" /\ overpassRequest # 0) =>
       overpassRequest = IF overpassUrl # 0 THEN overpassUrl ELSE SchoolsDefaultEndpoint

\* C23: a fiber run whose fetch succeeds writes exactly one raw cache file, before
\* fiber.geojson is written, and metadata.raw_cache_path of the output names that
\* file; a run whose fetch has not succeeded writes no cache file.
C23_OneCacheFileBeforeOutput ==
  run = "fiber" =>
    /\ rawFiles \in { 0, 1 }
    /\ rawFiles = 1 <=> (rpc = "returned" /\ mpc # "fetching")
    /\ rawFiles = 1 <=> rawPath # NoPath
    /\ rawFiles = 1 => rawPath.dir = RAW_DIR
    /\ rpc # "returned" => rawFiles = 0
    /\ fiberFile.state = "written" =>
         /\ rawFiles = 1
         /\ Resolve(RepoRoot, fiberMeta.raw_cache_path) = rawPath
    /\ fiberFile.state # "written" => fiberMeta = NoMeta

\* the output is written after a retry, with the cache file's path relative to the root
C23_CachedThenWrittenWitness ==
  /\ run = "fiber"
  /\ Len(requests) = 2
  /\ fiberFile.state = "written"
  /\ rawFiles = 1
  /\ fiberMeta.raw_cache_path.dir = << "data", "raw" >>
  /\ Resolve(RepoRoot, fiberMeta.raw_cache_path) = rawPath
\* elementToGeoJSONFeature has been applied to a node
NodeApplied ==
  run = "apply" /\ fn = "elementToGeoJSONFeature" /\ apc = "applied" /\ arg.type = "node"

\* the class the first matching predicate gives, the site predicate being site
FirstMatch(site, tags) ==
  IF site THEN "telecom_site"
  ELSE IF tags.man_made = STREET_CABINET /\ tags.telecom # << >> THEN "telecom_cabinet"
  ELSE IF tags.man_made = UTILITY_POLE /\ tags.utility = TELECOM THEN "telecom_pole"
  ELSE "null"

\* the node is emitted exactly when lon and lat are numbers, with feature_type t
NodeEmittedWith(t) ==
  /\ ~res.throws
  /\ res.feature.none <=> ~(TypeofNumber(arg.lon) /\ TypeofNumber(arg.lat))
  /\ res.feature.feature_type = t

FirstPresent(props, keys) ==
  IF NoUpstream(props, keys) THEN 0
  ELSE CHOOSE i \in 1..Len(keys) :
         /\ Truthy(PropGet(props, keys[i]))
         /\ \A j \in 1..(i - 1) : ~Truthy(PropGet(props, keys[j]))

\* the region the claim gives to a record with these upstream props under this map
ClaimedRegion(props, mapping) ==
  LET r == FirstPresent(props, RegionKeys)
      d == FirstPresent(props, DistrictKeys)
      entries == IF d = 0 THEN { }
                 ELSE { i \in 1..Len(mapping) :
                          mapping[i].key
                            = normalizeDistrictName(PropGet(props, DistrictKeys[d]).s) }
  IN  IF r # 0 THEN PropGet(props, RegionKeys[r])
      ELSE IF entries # { } THEN PStr(mapping[CHOOSE i \in entries : TRUE].region)
      ELSE PNull

\* C25: enrichProperties sets region to the explicit region-like field (region,
\* ADM1_NAME, province) when one is present, whatever the district map holds; else to
\* the map entry of the normalized district when the record has a district and the map
\* has an entry; else to null, and it never fails.
C25_RegionResolution ==
  /\ (fn = "enrichProperties" /\ apc = "applied") =>
       PropGet(res, KRegion) = ClaimedRegion(arg, buildDistrictToRegionMap(RegionsTable))
  /\ (schoolsFile.state = "written" /\ schoolsFile.source = "overpass") =>
       LET upstream == fetchOverpass(lastReply).features
       IN  \A i \in 1..Len(upstream) :
             PropGet(schoolsFile.features[i].properties, KRegion)
               = ClaimedRegion(upstream[i].properties, districtToRegion)

\* a record without a region whose district, written with other case and spaces, is in
\* the map
C25_LookedUpWitness ==
  /\ fn = "enrichProperties"
  /\ apc = "applied"
  /\ NoUpstream(arg, RegionKeys)
  /\ PropGet(arg, KAdm2Name) = PStr(<< " ", " ", "g", "u", "l", "u", " " >>)
  /\ PropGet(res, KRegion) = PStr(<< "N", "o", "r", "t", "h", "e", "r", "n" >>)
\* position i of the line is outside quotes: an even number of quotes precedes it
OutsideQuotes(line, i) == Cardinality({ j \in 1..(i - 1) : line[j] = "\"" }) % 2 = 0

DelimitersOutside(line, d) ==
  Cardinality({ i \in 1..Len(line) : line[i] = d /\ OutsideQuotes(line, i) })
DelimitersInside(line, d) ==
  Cardinality({ i \in 1..Len(line) : line[i] = d /\ ~OutsideQuotes(line, i) })

\* how many times c occurs in the fields
RECURSIVE CountIn(_, _)
CountIn(fields, c) ==
  IF fields = << >> THEN 0
  ELSE Cardinality({ i \in 1..Len(Head(fields)) : Head(fields)[i] = c })
         + CountIn(Tail(fields), c)

\* C26: splitLine is quote-aware: the number of fields is one plus the number of
\* delimiters outside quotes, a delimiter inside quotes stays in its field, the line
\* "a,b""c" gives the one field a,b"c, and a line without quotes splits at every
\* delimiter.
C26_SplitLineQuoteAware ==
  (fn = "splitLine" /\ apc = "applied") =>
    /\ Len(res) = 1 + DelimitersOutside(arg.line, arg.delimiter)
    /\ CountIn(res, arg.delimiter) = DelimitersInside(arg.line, arg.delimiter)
    /\ (arg.line = QuotedExampleLine /\ arg.delimiter = ",") =>
         res = << << "a", ",", "b", "\"", "c" >> >>
    /\ (\A i \in 1..Len(arg.line) : arg.line[i] # "\"") =>
         res = SplitOn(arg.line, arg.delimiter)

\* the example line has been split into one field
C26_QuotedExampleWitness ==
  /\ fn = "splitLine"
  /\ apc = "applied"
  /\ arg.line = QuotedExampleLine
  /\ arg.delimiter = ","
  /\ Len(res) = 1
\* the load has succeeded: a promise is fulfilled with the collection
LoadedPromises == { i \in 1..Len(promises) : promises[i].state = "fulfilled" /\ promises[i].value = "collection" }

\* a step that is a call of getSchoolsData or prefetchSchoolsData
IsCall == handed' # handed \/ Len(promises') > Len(promises)

\* C27: at most one request for /data/schools.geojson is in flight; a call made while
\* one is pending issues no request and getSchoolsData returns the pending promise;
\* after a successful load no request is issued; after a failed load the next call
\* issues a new request.
C27_SingleFlight ==
  /\ [](Cardinality(InFlight) <= 1)
  /\ [](\A i \in LoadedPromises : i = Len(promises) /\ schoolsPromise = i)
  /\ [][ IsCall =>
           /\ InFlight # { } =>
                /\ promises' = promises
                /\ handed' # handed => handed'[Len(handed')] \in InFlight
           /\ LoadedPromises # { } =>
                /\ promises' = promises
                /\ handed' # handed => handed'[Len(handed')] \in LoadedPromises
           /\ (InFlight = { } /\ LoadedPromises = { }) =>
                /\ promises' = Append(promises, promises'[Len(promises')])
                /\ promises'[Len(promises')].state = "pending"
                /\ handed' # handed => handed'[Len(handed')] = Len(promises') ]_vars

\* two callers share the request issued after a failed load
C27_SharedAfterFailureWitness ==
  /\ Len(promises) = 2
  /\ promises[1].state = "rejected"
  /\ promises[2].state = "pending"
  /\ handed = << 1, 2, 2 >>

\* C28 (as claimed): a promise returned by getSchoolsData fulfils with the collection
\* or rejects with the load error; it never fulfils with null.
C28_NeverFulfilsWithNull ==
  \A k \in 1..Len(handed) :
    promises[handed[k]].state = "fulfilled" => promises[handed[k]].value = "collection"
\* C29 (as claimed): a layer that exists on the map is visible exactly when its
\* checkbox is checked (Fiber for the fiber layer, Schools for the three school
\* layers), however the toggles, the load event and the end of the schools request
\* are ordered.
C29_LayersFollowCheckboxes ==
  /\ layers["fiber-lines"] # "absent" => layers["fiber-lines"] = Visibility(fiberVisible)
  /\ \A l \in SchoolLayers :
       layers[l] # "absent" => layers[l] = Visibility(schoolsVisible)
\* the text holds w as a separate word: no letter, digit or underscore on either side
HasWord(s, w) ==
  \E i \in 1..(Len(s) - Len(w) + 1) :
     /\ SubSeq(s, i, i + Len(w) - 1) = w
     /\ (i = 1 \/ ~IsKeyChar(s[i - 1]))
     /\ (i + Len(w) > Len(s) \/ ~IsKeyChar(s[i + Len(w)]))

\* the keywords of the claim, on the lower-case text
BoysKeyword(s) == Contains(s, << "b", "o", "y", "s" >>) \/ HasWord(s, << "m", "a", "l", "e" >>)
GirlsKeyword(s) == Contains(s, << "g", "i", "r", "l", "s" >>) \/ HasWord(s, << "f", "e", "m", "a", "l", "e" >>)

\* C30 (as claimed): guessGender gives "girls" for every text with a girls keyword
\* ("girls", or the word "female") and no boys keyword ("boys", or the separate word
\* "male"), and gives "boys" only for a text with a boys keyword.
C30_GirlsFamilyIsGirls ==
  (fn = "enrichProperties" /\ apc = "applied"
     /\ OrChain(arg, GenderKeys).t = "string" /\ Truthy(OrChain(arg, GenderKeys))) =>
    LET s == ToLowerCase(OrChain(arg, GenderKeys).s)
        gender == PropGet(res, KGender).s
    IN  /\ (GirlsKeyword(s) /\ ~BoysKeyword(s)) => gender = << "g", "i", "r", "l", "s" >>
        /\ gender = << "b", "o", "y", "s" >> => BoysKeyword(s)
====
